---- MODULE Spec2Model ----
(***************************************************************************)
(* Command link of the two-PIC robot.                                      *)
(*                                                                         *)
(*   Responder : FollowerPIC.X/ProjectSource/SPIFollowerFSM.c              *)
(*               (RunSPIFollowerFSM, SPI_ISR)                              *)
(*   Poller    : LeaderPIC.X/ProjectSource/CommandRetrieveService.c        *)
(*               (RunCommandRetrieveService, IsValidCommandByte)           *)
(*                                                                         *)
(* One SPI exchange moves the byte held in the Responder's SPI1BUF to the  *)
(* Poller and raises the Responder's receive interrupt, whose handler      *)
(* loads SPI1BUF with the byte for the next exchange.                      *)
(***************************************************************************)
EXTENDS Integers, Sequences, FiniteSets, TLC

(***************************************************************************)
(* Command codes and the whitelist (CommonDefinitions.h / .c).             *)
(***************************************************************************)
CMD_STOP == 0
CMD_ROTATE_CW_90 == 2
CMD_ROTATE_CW_45 == 3
CMD_ROTATE_CCW_90 == 4
CMD_ROTATE_CCW_45 == 5
CMD_DRIVE_FWD_HALF == 8
CMD_DRIVE_FWD_FULL == 9
CMD_DRIVE_REV_HALF == 16
CMD_DRIVE_REV_FULL == 17
CMD_ALIGN_BEACON == 32
CMD_SEARCH_TAPE == 64

\* the literal 0xFF used by SPI_ISR and RunCommandRetrieveService
NewCommandFlagByte == 255

validCommandBytes ==
    << 0, 2, 3, 4, 5, 8, 9, 16, 17, 32, 64 >>

ValidSet == { validCommandBytes[i] : i \in 1..Len(validCommandBytes) }

\* IsValidCommandByte: linear scan of validCommandBytes
IsValidCommandByte(commandByte) ==
    \E index \in 1..Len(validCommandBytes) :
        commandByte = validCommandBytes[index]

(***************************************************************************)
(* Keyboard input of the Responder.                                        *)
(***************************************************************************)
CommandKeys ==
    { "S", "s", "W", "w", "Q", "q", "X", "x", "Z", "z", "D", "d",
      "E", "e", "A", "a", "R", "r", "B", "b", "T", "t" }

\* keys that fall into the default branch of the key switch
OtherKeys == { "k", "1" }

Keys == CommandKeys \cup OtherKeys

\* bytes the Poller may read from a line that is not driven by the Responder
StrayBytes == { 1, 7, 170 }

LineBytes == ValidSet \cup { NewCommandFlagByte } \cup StrayBytes

\* faulty variant of KeyToCommand: newCommand starts as 0xFF ("no command")
KeyToCommand_DefaultFlag(key) ==
    CASE key \in { "S", "s" } -> CMD_STOP
      [] key \in { "W", "w" } -> CMD_DRIVE_FWD_FULL
      [] key \in { "Q", "q" } -> CMD_DRIVE_FWD_HALF
      [] key \in { "X", "x" } -> CMD_DRIVE_REV_FULL
      [] key \in { "Z", "z" } -> CMD_DRIVE_REV_HALF
      [] key \in { "D", "d" } -> CMD_ROTATE_CW_90
      [] key \in { "E", "e" } -> CMD_ROTATE_CW_45
      [] key \in { "A", "a" } -> CMD_ROTATE_CCW_90
      [] key \in { "R", "r" } -> CMD_ROTATE_CCW_45
      [] key \in { "B", "b" } -> CMD_ALIGN_BEACON
      [] key \in { "T", "t" } -> CMD_SEARCH_TAPE
      [] OTHER -> NewCommandFlagByte

\* the switch (key) of RunSPIFollowerFSM; newCommand starts as 0x00
KeyToCommand(key) ==
    CASE key \in { "S", "s" } -> CMD_STOP
      [] key \in { "W", "w" } -> CMD_DRIVE_FWD_FULL
      [] key \in { "Q", "q" } -> CMD_DRIVE_FWD_HALF
      [] key \in { "X", "x" } -> CMD_DRIVE_REV_FULL
      [] key \in { "Z", "z" } -> CMD_DRIVE_REV_HALF
      [] key \in { "D", "d" } -> CMD_ROTATE_CW_90
      [] key \in { "E", "e" } -> CMD_ROTATE_CW_45
      [] key \in { "A", "a" } -> CMD_ROTATE_CCW_90
      [] key \in { "R", "r" } -> CMD_ROTATE_CCW_45
      [] key \in { "B", "b" } -> CMD_ALIGN_BEACON
      [] key \in { "T", "t" } -> CMD_SEARCH_TAPE
      [] OTHER -> 0

\* faulty variant of NewCommandReady: the stop key is not special
NewCommandReady_NoStopRule(newCommand, held, key) ==
    newCommand # held

\* if (newCommand != CurrentCommand || key == 'S' || key == 's')
NewCommandReady(newCommand, held, key) ==
    newCommand # held \/ key = "S" \/ key = "s"

VARIABLES
    CurrentState,       \* Responder: SPIFollowerState_t
    CurrentCommand,     \* Responder: byte held for transmission
    NewCommandFlag,     \* Responder: new command pending
    SPI1BUF,            \* Responder: byte loaded for the next exchange
    SawNewCommandFlag,  \* Poller: saw-flag latch
    LastCommand,        \* Poller: static uint8_t LastCommand
    SpiTimer,           \* Poller: COMMAND_SPI_TIMER, "running" or "expired"
    Posted,             \* events posted to MainLogicFSM by the latest poll
    wire,               \* history: which branch of SPI_ISR loaded SPI1BUF
    owed,               \* history: accepted commands whose payload byte
                        \*          has not yet been read by the Poller
    issued,             \* history: latest command asked of the Responder
    prevReply,          \* history: reply byte of the latest poll
    lastForwarded,      \* history: parameter of the latest posted event
    prevForwarded,      \* history: parameter of the posted event before it
    protocolError,      \* history: a flagged payload was discarded as invalid
    MainLogicState,     \* MainLogicFSM: static MainLogicState_t CurrentState
    MainQueue,          \* MainLogicFSM: events waiting in the service queue
    DesiredSpeed,       \* motor service: << left, right >> requested speed
    DesiredDirection,   \* motor service: << left, right >> requested direction
    TimerActive,        \* MainLogicFSM: timers that are running
    armedHere,          \* history: running timers armed since the machine
                        \*          last left Stopped
    Handled,            \* history: what the latest step dispatched
    MotorRequest,       \* actuation requests issued by the latest step
    Armed,              \* timers armed by the latest step
    SelfPosted,         \* events the latest step posted to MainQueue
    TMR3,               \* capture timer: 16-bit count
    T3IF,               \* capture timer: rollover interrupt flag
    IC1IF,              \* input capture: interrupt flag
    IC1BUF,             \* input capture: captured 16-bit count
    RolloverCounter,    \* beacon engine: volatile uint16_t RolloverCounter
    CapturedTime,       \* beacon engine: volatile uint32_t CapturedTime
    Timer3ISRAt,        \* Timer3ISR: "idle", or "entered" before its
                        \*            __builtin_disable_interrupts()
    edgeReady,          \* input capture: the timer has advanced since the
                        \*                latest capture
    hwRollovers,        \* history: rollovers of TMR3 so far
    trueCapture,        \* history: rollovers and count at the latest capture
    stamps,             \* history: << CapturedTime, true time >> of the
                        \*          captures InputCaptureISR has served
    LastCapturedTime,   \* beacon engine: static uint32_t LastCapturedTime
    SmoothedTimeLapse,  \* beacon engine: static uint32_t SmoothedTimeLapse
    FirstSample,        \* beacon engine: static bool FirstSample
    PrintTimer,         \* beacon engine: PRINT_FREQUENCY_TIMER
    ZeroDivision,       \* beacon engine: what a division by zero does in
                        \*                this build, once one has happened
    BeaconQueue,        \* beacon engine: ES_NEW_SIGNAL_EDGE events queued
    samples,            \* history: edge events handled so far
    Sample,             \* history: what the latest step of the engine did
    RB2,                \* beacon input pin
    RB3,                \* tape sensor input pin
    LastBeaconState,    \* Check4BeaconDetected: static bool LastBeaconState
    LastTapeState,      \* Check4TapeDetected: static bool LastTapeState
    Checked,            \* history: what the latest event checker call did
    Polled,             \* history: what the Poller's latest timeout did
    delivered,          \* history: commands the Poller has forwarded, in order
    waited,             \* history: how many had been forwarded when two new
                        \*          commands last waited in a moving machine
    posters,            \* history: for each queued ES_NEW_SIGNAL_EDGE, the
                        \*          CapturedTime written by the capture that
                        \*          posted it
    served,             \* history: that value for the edge event handled last
    KeyAt,              \* Responder: how far RunSPIFollowerFSM has got with
                        \*            the stores of an accepted key
    sent                \* history: the bytes SPI_ISR loaded for transmission

responderVars == << CurrentState, CurrentCommand, NewCommandFlag, SPI1BUF,
                    wire, owed, issued >>
pollerVars == << SawNewCommandFlag, LastCommand, SpiTimer, Posted,
                 prevReply, lastForwarded, prevForwarded, protocolError >>
logicVars == << MainLogicState, MainQueue, DesiredSpeed, DesiredDirection,
                TimerActive, armedHere, Handled, MotorRequest, Armed,
                SelfPosted >>
captureVars == << TMR3, T3IF, IC1IF, IC1BUF, RolloverCounter, CapturedTime,
                  Timer3ISRAt, edgeReady, hwRollovers, trueCapture, stamps >>
serviceVars == << LastCapturedTime, SmoothedTimeLapse, FirstSample,
                  PrintTimer, ZeroDivision, BeaconQueue, samples, Sample >>
engineVars == << captureVars, serviceVars >>
sensorVars == << RB2, RB3, LastBeaconState, LastTapeState, Checked >>
orderVars == << delivered, waited >>
pendingVars == << posters, served >>
raceVars == << KeyAt, sent >>
restVars == << sensorVars, Polled, orderVars, pendingVars, raceVars >>
vars == << CurrentState, CurrentCommand, NewCommandFlag, SPI1BUF,
           SawNewCommandFlag, LastCommand, SpiTimer, Posted,
           wire, owed, issued, prevReply, lastForwarded, prevForwarded,
           protocolError, MainLogicState, MainQueue, DesiredSpeed,
           DesiredDirection, TimerActive, armedHere, Handled, MotorRequest,
           Armed, SelfPosted, TMR3, T3IF, IC1IF, IC1BUF, RolloverCounter,
           CapturedTime, Timer3ISRAt, edgeReady, hwRollovers, trueCapture,
           stamps, LastCapturedTime, SmoothedTimeLapse, FirstSample,
           PrintTimer, ZeroDivision, BeaconQueue, samples, Sample,
           RB2, RB3, LastBeaconState, LastTapeState, Checked, Polled,
           delivered, waited, posters, served, KeyAt, sent >>

(***************************************************************************)
(* Beacon engine: 32-bit values are pairs << high half, low half >> of      *)
(* 16-bit numbers, so that (RolloverCounter << 16) | capturedTimer16 is     *)
(* << RolloverCounter, capturedTimer16 >>.                                  *)
(***************************************************************************)
\* number of values of a uint16_t
Range16 == 65536

\* INVALID_TIME and TIMER_MAX_PERIOD, 0xFFFFFFFF
INVALID_TIME == << Range16 - 1, Range16 - 1 >>
TIMER_MAX_PERIOD == << Range16 - 1, Range16 - 1 >>

\* State after InitBeaconDetectService (ConfigureICTimer clears TMR3 and
\* T3IF, ConfigureInputCapture clears IC1IF and empties the capture buffer)
InitBeaconDetectService ==
    /\ TMR3 = 0
    /\ T3IF = FALSE
    /\ IC1IF = FALSE
    /\ IC1BUF = 0
    /\ RolloverCounter = 0
    /\ CapturedTime = << 0, 0 >>
    /\ Timer3ISRAt = "idle"
    /\ edgeReady = FALSE
    /\ hwRollovers = 0
    /\ trueCapture = << 0, 0 >>
    /\ stamps = << >>
    /\ LastCapturedTime = INVALID_TIME
    /\ SmoothedTimeLapse = << 0, 0 >>
    /\ FirstSample = TRUE
    /\ PrintTimer = "running"
    /\ ZeroDivision = "untried"
    /\ BeaconQueue = 0
    /\ samples = 0
    /\ Sample = << >>

(***************************************************************************)
(* Behaviour machine: constants of CommonDefinitions.h.                    *)
(***************************************************************************)
FORWARD == 0
REVERSE == 1
HALF_SPEED == 1500
FULL_SPEED == 2000
SIMPLE_MOVE_90_MS == 1500
SIMPLE_MOVE_45_MS == 750
BEACON_ALIGN_MS == 5000

\* the request MotorCommandWrapper hands to the motor service
MotorCommandWrapper(speedLeft, speedRight, dirLeft, dirRight) ==
    [ DesiredSpeed |-> << speedLeft, speedRight >>,
      DesiredDirection |-> << dirLeft, dirRight >> ]

\* MotorCommandWrapper(0, 0, FORWARD, FORWARD)
ZeroActuation == MotorCommandWrapper(0, 0, FORWARD, FORWARD)

\* an ES_Event_t in MainQueue; tag is history: commands are "new" or
\* "reposted", timeouts are "own" (armed since the machine last left Stopped)
\* or "stale", sensor events are "checker" or "synthetic"
Event(type, param, tag) ==
    [ EventType |-> type, EventParam |-> param, tag |-> tag ]

\* State after InitMainLogicFSM: Stopped, motors asked to stop, no timer,
\* ES_INIT posted to the machine itself (its parameter is never read)
InitMainLogicFSM ==
    /\ MainLogicState = "Stopped"
    /\ MainQueue = << Event("ES_INIT", 0, "init") >>
    /\ DesiredSpeed = ZeroActuation.DesiredSpeed
    /\ DesiredDirection = ZeroActuation.DesiredDirection
    /\ TimerActive = { }
    /\ armedHere = { }
    /\ Handled = << >>
    /\ MotorRequest = << ZeroActuation >>
    /\ Armed = << >>
    /\ SelfPosted = << >>

\* history: the byte SPI_ISR loaded last, the one it loaded before that,
\* and the last command byte among the earlier ones
Loaded(byte, before, command) ==
    [ byte |-> byte, before |-> before, command |-> command ]

(***************************************************************************)
(* State after InitSPIFollowerFSM and InitCommandRetrieveService.          *)
(* LastCommand has static storage and no initializer: it starts as 0.      *)
(***************************************************************************)
\* The event checkers' remembered levels as initialised; the pins start at
\* the levels of no beacon and no tape and change as the surroundings do
InitEventCheckers ==
    /\ RB2 = FALSE
    /\ RB3 = TRUE
    /\ LastBeaconState = FALSE
    /\ LastTapeState = TRUE
    /\ Checked = << >>

Init ==
    /\ InitMainLogicFSM
    /\ InitBeaconDetectService
    /\ InitEventCheckers
    /\ Polled = << >>
    /\ delivered = << >>
    /\ waited = 0
    /\ posters = << >>
    /\ served = << >>
    /\ KeyAt = "idle"
    /\ sent = Loaded(0, << >>, << >>)
    /\ CurrentState = "InitSPIFollowerState"
    /\ CurrentCommand = 0
    /\ NewCommandFlag = FALSE
    /\ SPI1BUF = 0
    /\ SawNewCommandFlag = FALSE
    /\ LastCommand = 0
    /\ SpiTimer = "running"
    /\ Posted = << >>
    /\ wire = "init"
    /\ owed = << >>
    /\ issued = << >>
    /\ prevReply = << >>
    /\ lastForwarded = << >>
    /\ prevForwarded = << >>
    /\ protocolError = FALSE

(***************************************************************************)
(* Responder: RunSPIFollowerFSM.                                           *)
(***************************************************************************)
\* ES_INIT, posted once by InitSPIFollowerFSM and handled in the initial state
RunSPIFollowerFSM_Init ==
    /\ CurrentState = "InitSPIFollowerState"
    /\ CurrentState' = "WaitingForCommand"
    /\ UNCHANGED << CurrentCommand, NewCommandFlag, SPI1BUF, wire, owed,
                    issued >>
    /\ UNCHANGED pollerVars
    /\ UNCHANGED logicVars
    /\ UNCHANGED engineVars
    /\ UNCHANGED restVars

\* ES_NEW_KEY with EventParam = key
RunSPIFollowerFSM_NewKey(key) ==
    /\ IF /\ CurrentState = "WaitingForCommand"
          /\ NewCommandReady(KeyToCommand(key), CurrentCommand, key)
       THEN /\ CurrentCommand' = KeyToCommand(key)
            /\ NewCommandFlag' = TRUE
            /\ CurrentState' = "SendingNewFlag"
            /\ owed' = Append(owed, KeyToCommand(key))
            /\ issued' = << KeyToCommand(key) >>
       ELSE /\ UNCHANGED << CurrentCommand, NewCommandFlag, CurrentState,
                            owed >>
            /\ issued' = IF /\ key \in CommandKeys
                            /\ CurrentState # "InitSPIFollowerState"
                         THEN << KeyToCommand(key) >>
                         ELSE issued
    /\ UNCHANGED << SPI1BUF, wire >>
    /\ UNCHANGED pollerVars
    /\ UNCHANGED logicVars
    /\ UNCHANGED engineVars
    /\ UNCHANGED restVars

(***************************************************************************)
(* Responder: SPI_ISR, run at the end of every exchange.                   *)
(***************************************************************************)
\* faulty variant of ISR_DataToSend: the flag state sends the command at once
ISR_DataToSend_NoFlag(state, command) ==
    command

\* faulty variant of ISR_DataToSend: the idle state answers with 0x00
ISR_DataToSend_IdleZero(state, command) ==
    IF state = "SendingNewFlag" THEN NewCommandFlagByte
    ELSE IF state = "SendingCommand" THEN command
    ELSE 0

\* dataToSend
ISR_DataToSend(state, command) ==
    IF state = "SendingNewFlag" THEN NewCommandFlagByte
    ELSE command

\* the state SPI_ISR leaves in CurrentState
ISR_NextState(state) ==
    IF state = "SendingNewFlag" THEN "SendingCommand"
    ELSE IF state = "SendingCommand" THEN "WaitingForCommand"
    ELSE state

SPI_ISR ==
    /\ SPI1BUF' = ISR_DataToSend(CurrentState, CurrentCommand)
    /\ CurrentState' = ISR_NextState(CurrentState)
    /\ NewCommandFlag' =
           IF CurrentState = "SendingCommand" THEN FALSE ELSE NewCommandFlag
    /\ wire' = IF CurrentState = "SendingNewFlag" THEN "flag"
               ELSE IF CurrentState = "SendingCommand" THEN "payload"
               ELSE "repeat"
    /\ UNCHANGED CurrentCommand

(***************************************************************************)
(* Poller: RunCommandRetrieveService.                                      *)
(***************************************************************************)
\* faulty variant of ForwardCommand: no validation of the payload
ForwardCommand_NoValidation(commandByte, last) ==
    commandByte # last

\* faulty variant of ForwardCommand: forwards without looking at the latch
\* (the latch is tested by the caller; this one ignores LastCommand)
ForwardCommand_Always(commandByte, last) ==
    IsValidCommandByte(commandByte)

\* IsValidCommandByte(commandByte) && commandByte != LastCommand
ForwardCommand(commandByte, last) ==
    IsValidCommandByte(commandByte) /\ commandByte # last

\* faulty variant of LastCommandAfterPayload: the forwarded byte is remembered
LastCommandAfterPayload_Remember(commandByte, last) ==
    IF ForwardCommand(commandByte, last) THEN commandByte ELSE last

\* LastCommand when the latched branch is left:
\* LastCommand = commandByte (if forwarded) and then LastCommand = 0xFF
LastCommandAfterPayload(commandByte, last) ==
    NewCommandFlagByte

\* faulty variant of LatchAfterPoll: the latch survives a payload
LatchAfterPoll_Sticky(commandByte, latch) ==
    commandByte = NewCommandFlagByte \/ latch

\* SawNewCommandFlag after a poll
LatchAfterPoll(commandByte, latch) ==
    commandByte = NewCommandFlagByte

SPI_POLL_INTERVAL_MS == 500

\* history: the timer whose timeout the Poller handled, the queries it
\* issued and the interval it started COMMAND_SPI_TIMER with, if it did
Timeout(timer, queries, armed) ==
    [ timer |-> timer, queries |-> queries, armed |-> armed ]

PollerTimeout_NoRestartOnInvalid(commandByte) ==
    /\ SawNewCommandFlag' = LatchAfterPoll(commandByte, SawNewCommandFlag)
    /\ IF commandByte # NewCommandFlagByte /\ SawNewCommandFlag
       THEN /\ Posted' = IF ForwardCommand(commandByte, LastCommand)
                         THEN << commandByte >> ELSE << >>
            /\ LastCommand' = LastCommandAfterPayload(commandByte, LastCommand)
       ELSE /\ Posted' = << >>
            /\ UNCHANGED LastCommand
    /\ LET invalid == /\ SawNewCommandFlag
                      /\ commandByte # NewCommandFlagByte
                      /\ commandByte \notin ValidSet
       IN  /\ SpiTimer' = IF invalid THEN "stopped" ELSE "running"
           /\ Polled' = << Timeout("COMMAND_SPI_TIMER", 1,
                                   IF invalid THEN << >>
                                   ELSE << SPI_POLL_INTERVAL_MS >>) >>
    /\ prevReply' = << commandByte >>
    /\ lastForwarded' = IF Posted' # << >> THEN Posted' ELSE lastForwarded
    /\ prevForwarded' = IF Posted' # << >> THEN lastForwarded
                        ELSE prevForwarded
    /\ protocolError' = \/ protocolError
                        \/ /\ SawNewCommandFlag
                           /\ commandByte # NewCommandFlagByte
                           /\ commandByte \notin ValidSet

\* ES_TIMEOUT of COMMAND_SPI_TIMER with commandByte = QueryCommandGenerator()
PollerTimeout(commandByte) ==
    /\ SawNewCommandFlag' = LatchAfterPoll(commandByte, SawNewCommandFlag)
    /\ IF commandByte # NewCommandFlagByte /\ SawNewCommandFlag
       THEN /\ Posted' = IF ForwardCommand(commandByte, LastCommand)
                         THEN << commandByte >> ELSE << >>
            /\ LastCommand' = LastCommandAfterPayload(commandByte, LastCommand)
       ELSE /\ Posted' = << >>
            /\ UNCHANGED LastCommand
    /\ SpiTimer' = "running"
    /\ Polled' = << Timeout("COMMAND_SPI_TIMER", 1,
                            << SPI_POLL_INTERVAL_MS >>) >>
    /\ prevReply' = << commandByte >>
    /\ lastForwarded' = IF Posted' # << >> THEN Posted' ELSE lastForwarded
    /\ prevForwarded' = IF Posted' # << >> THEN lastForwarded
                        ELSE prevForwarded
    /\ protocolError' = \/ protocolError
                        \/ /\ SawNewCommandFlag
                           /\ commandByte # NewCommandFlagByte
                           /\ commandByte \notin ValidSet

\* the ES framework timer runs out and posts ES_TIMEOUT to the Poller
CommandSpiTimerExpires ==
    /\ SpiTimer = "running"
    /\ SpiTimer' = "expired"
    /\ UNCHANGED << SawNewCommandFlag, LastCommand, Posted, prevReply,
                    lastForwarded, prevForwarded, protocolError >>
    /\ UNCHANGED responderVars
    /\ UNCHANGED logicVars
    /\ UNCHANGED engineVars
    /\ UNCHANGED restVars

\* a poll over the link: the Poller reads what the Responder had loaded,
\* and the exchange runs SPI_ISR on the Responder
LinkPoll_Step ==
    /\ SpiTimer = "expired"
    /\ PollerTimeout(SPI1BUF)
    /\ SPI_ISR
    /\ owed' = IF wire = "payload" THEN Tail(owed) ELSE owed
    /\ UNCHANGED issued
    /\ UNCHANGED logicVars
    /\ UNCHANGED engineVars
    /\ UNCHANGED sensorVars
    /\ UNCHANGED orderVars
    /\ UNCHANGED pendingVars

LinkPoll ==
    /\ LinkPoll_Step
    /\ UNCHANGED raceVars

\* a poll whose reply is any byte of the line
LinePoll(commandByte) ==
    /\ SpiTimer = "expired"
    /\ PollerTimeout(commandByte)
    /\ UNCHANGED responderVars
    /\ UNCHANGED logicVars
    /\ UNCHANGED engineVars
    /\ UNCHANGED sensorVars
    /\ UNCHANGED orderVars
    /\ UNCHANGED pendingVars
    /\ UNCHANGED raceVars

KeyPressed == \E key \in Keys : RunSPIFollowerFSM_NewKey(key)

LinkNext ==
    \/ RunSPIFollowerFSM_Init
    \/ KeyPressed
    \/ CommandSpiTimerExpires
    \/ LinkPoll

LinkSpec == Init /\ [][LinkNext]_vars

AnyLinePoll == \E commandByte \in LineBytes : LinePoll(commandByte)

\* ES_TIMEOUT of another timer reaches RunCommandRetrieveService
ForeignTimeout(timer) ==
    /\ Polled' = << Timeout(timer, 0, << >>) >>
    /\ UNCHANGED pollerVars
    /\ UNCHANGED responderVars
    /\ UNCHANGED logicVars
    /\ UNCHANGED engineVars
    /\ UNCHANGED sensorVars
    /\ UNCHANGED orderVars
    /\ UNCHANGED pendingVars
    /\ UNCHANGED raceVars

AnyForeignTimeout ==
    \E timer \in { "PRINT_FREQUENCY_TIMER" } : ForeignTimeout(timer)

PollerNext ==
    \/ CommandSpiTimerExpires
    \/ AnyLinePoll

PollerSpec == Init /\ [][PollerNext]_vars

\* The Poller with the timeouts of other timers reaching it as well.  The
\* framework's timer runs out in the end, and the framework hands the
\* timeout to the Poller.
PollerFairSpec ==
    /\ Init
    /\ [][PollerNext \/ AnyForeignTimeout]_vars
    /\ WF_vars(CommandSpiTimerExpires)
    /\ WF_vars(AnyLinePoll)

(***************************************************************************)
(* Properties of the command link.                                         *)
(***************************************************************************)
\* a step in which the Poller handles the COMMAND_SPI_TIMER timeout
PollStep == SpiTimer = "expired" /\ SpiTimer' = "running"

StopKeys == { "S", "s" }

\* every accepted command has been read by the Poller and is being repeated
Quiescent ==
    /\ CurrentState = "WaitingForCommand"
    /\ wire = "repeat"
    /\ owed = << >>

\* C1: round trip. Every command the Responder accepts is posted exactly
\* once, with its own value: the poll that reads the payload byte of an
\* accepted command posts ES_COMMAND_RETRIEVED with that command, and a poll
\* that reads anything else posts nothing. Holds for every whitelist byte,
\* 0x00 and the first command after power-up included.
C1_RoundTrip ==
    [][ PollStep =>
          IF wire = "payload" /\ owed # << >>
          THEN Posted' = << Head(owed) >>
          ELSE Posted' = << >> ]_vars

\* C2: from SendingNewFlag the next exchange loads 0xFF and moves to
\* SendingCommand, the one after loads the pending command and moves to
\* WaitingForCommand; nothing but an exchange moves the handshake.
C2_FlagThenPayload ==
    [][ /\ (PollStep /\ CurrentState = "SendingNewFlag") =>
              /\ SPI1BUF' = 255
              /\ CurrentState' = "SendingCommand"
              /\ CurrentCommand' = owed[Len(owed)]
        /\ (PollStep /\ CurrentState = "SendingCommand") =>
              /\ SPI1BUF' = owed[Len(owed)]
              /\ CurrentState' = "WaitingForCommand"
        /\ (~PollStep /\ CurrentState \in { "SendingNewFlag",
                                            "SendingCommand" }) =>
              UNCHANGED << CurrentState, CurrentCommand, SPI1BUF >> ]_vars

\* the payload of an accepted non-stop command has just been loaded,
\* two exchanges after it was accepted
C2_Witness ==
    /\ wire = "payload"
    /\ CurrentState = "WaitingForCommand"
    /\ prevReply = << 255 >>
    /\ owed # << >>
    /\ SPI1BUF = owed[Len(owed)]
    /\ SPI1BUF # 0

\* C3: in WaitingForCommand every exchange loads CurrentCommand again and
\* leaves CurrentState and CurrentCommand alone; between exchanges the
\* loaded byte stays as long as no key is accepted.
C3_IdempotentRepeat ==
    [][ /\ (PollStep /\ CurrentState = "WaitingForCommand") =>
              /\ SPI1BUF' = CurrentCommand
              /\ UNCHANGED << CurrentState, CurrentCommand >>
        /\ (/\ ~PollStep
            /\ CurrentState = "WaitingForCommand"
            /\ CurrentState' = "WaitingForCommand") =>
              UNCHANGED << CurrentCommand, SPI1BUF >> ]_vars

\* a delivered non-stop command has been read once more, as a repeat,
\* and is loaded yet again
C3_Witness ==
    /\ CurrentState = "WaitingForCommand"
    /\ wire = "repeat"
    /\ CurrentCommand # 0
    /\ SPI1BUF = CurrentCommand
    /\ prevReply = << CurrentCommand >>
    /\ lastForwarded = << CurrentCommand >>
    /\ Posted = << >>

\* C4: in WaitingForCommand a command key starts a handshake exactly when
\* its command differs from the held one or the key is the stop key;
\* otherwise CurrentCommand, CurrentState and the loaded byte are untouched.
C4_RearmRule ==
    [][ \A key \in CommandKeys :
          (CurrentState = "WaitingForCommand"
             /\ RunSPIFollowerFSM_NewKey(key)) =>
            IF KeyToCommand(key) # CurrentCommand \/ key \in StopKeys
            THEN /\ CurrentCommand' = KeyToCommand(key)
                 /\ CurrentState' = "SendingNewFlag"
            ELSE UNCHANGED << CurrentCommand, CurrentState, SPI1BUF,
                              NewCommandFlag >> ]_vars

\* stop is held, was delivered and is being repeated; the stop key has
\* started a new handshake
C4_Witness ==
    /\ CurrentState = "SendingNewFlag"
    /\ CurrentCommand = CMD_STOP
    /\ wire = "repeat"
    /\ SPI1BUF = CMD_STOP
    /\ lastForwarded = << CMD_STOP >>
    /\ owed = << CMD_STOP >>

\* C5: a command key is never lost. Once the link is quiet (nothing
\* pending, the held command being repeated) the held command is the
\* latest command that was asked of the Responder.
C5_NewerCommandNotLost ==
    (Quiescent /\ issued # << >>) => issued = << CurrentCommand >>

\* C6: the held payload is always a whitelist byte, no whitelist byte is
\* 0xFF, and 0xFF is loaded for transmission only by the flag branch.
C6_PayloadNeverFlag ==
    /\ CurrentCommand \in ValidSet
    /\ \A i \in 1..Len(validCommandBytes) : validCommandBytes[i] # 255
    /\ SPI1BUF = 255 <=> wire = "flag"
    /\ wire # "flag" => SPI1BUF \in ValidSet

\* the flag for a pending search-for-tape command is loaded
C6_Witness ==
    /\ wire = "flag"
    /\ SPI1BUF = 255
    /\ CurrentCommand = CMD_SEARCH_TAPE
    /\ CurrentState = "SendingCommand"

\* C7: the Poller posts only on the poll that follows a 0xFF reply. A 0xFF
\* reply arms the latch and does nothing else; after a reply other than
\* 0xFF the latch is clear; a reply other than 0xFF read with the latch
\* clear posts nothing and leaves the latch and LastCommand as they were.
C7_FlagAuthorisesOnePost ==
    /\ [](SawNewCommandFlag <=> prevReply = << 255 >>)
    /\ [][ PollStep =>
             /\ Posted' # << >> => prevReply = << 255 >>
             /\ prevReply' = << 255 >> =>
                   /\ SawNewCommandFlag'
                   /\ Posted' = << >>
                   /\ UNCHANGED LastCommand
             /\ prevReply' # << 255 >> => ~SawNewCommandFlag'
             /\ (prevReply' # << 255 >> /\ ~SawNewCommandFlag) =>
                   /\ Posted' = << >>
                   /\ UNCHANGED << SawNewCommandFlag, LastCommand >> ]_vars

\* a command was posted by the latest poll, two polls after another post,
\* and the latch is clear again
C7_Witness ==
    /\ Posted # << >>
    /\ prevReply = Posted
    /\ prevForwarded # << >>
    /\ ~SawNewCommandFlag

\* C8: whatever byte the line delivers, a posted command is a whitelist
\* byte; a flagged byte outside the whitelist is dropped without a post;
\* every poll re-arms COMMAND_SPI_TIMER; and once such a byte has been
\* dropped, a flag followed by a whitelist byte is forwarded as usual.
C8_InvalidPayloadDiscarded ==
    /\ [](Posted # << >> => Posted[1] \in ValidSet)
    /\ [][ SpiTimer = "expired" =>
             /\ SpiTimer' = "running"
             /\ (/\ SawNewCommandFlag
                 /\ prevReply' # << 255 >>
                 /\ prevReply'[1] \notin ValidSet) =>
                   /\ Posted' = << >>
                   /\ ~SawNewCommandFlag'
             /\ (/\ protocolError
                 /\ SawNewCommandFlag
                 /\ prevReply'[1] \in ValidSet) =>
                   Posted' = prevReply' ]_vars

\* stop was forwarded by the latest poll after an invalid payload had been
\* dropped earlier, and the poll timer runs
C8_Witness ==
    /\ protocolError
    /\ Posted = << CMD_STOP >>
    /\ prevReply = << CMD_STOP >>
    /\ SpiTimer = "running"

\* C9: once a command has been forwarded, every whitelist byte read after
\* a flag is forwarded, equal to the previously forwarded value or not.
\* The stop key pressed while stop is held starts a new handshake, and the
\* payload of every accepted command is then posted with its own value.
C9_RepeatedValueForwarded ==
    [][ /\ (/\ PollStep
            /\ SawNewCommandFlag
            /\ SPI1BUF \in ValidSet
            /\ lastForwarded # << >>) =>
              Posted' = << SPI1BUF >>
        /\ \A key \in StopKeys :
             (/\ CurrentState = "WaitingForCommand"
              /\ CurrentCommand = CMD_STOP
              /\ RunSPIFollowerFSM_NewKey(key)) =>
                /\ CurrentState' = "SendingNewFlag"
                /\ CurrentCommand' = CMD_STOP
        /\ (/\ PollStep
            /\ wire = "payload"
            /\ lastForwarded # << >>) =>
              /\ owed # << >>
              /\ prevReply = << 255 >>
              /\ Posted' = << Head(owed) >> ]_vars

\* the latest poll posted stop and the post before it was stop as well
C9_Witness ==
    /\ Posted = << CMD_STOP >>
    /\ prevForwarded = << CMD_STOP >>
    /\ prevReply = << CMD_STOP >>
    /\ CurrentCommand = CMD_STOP

\* C10 as stated: after command C has been forwarded LastCommand holds C
\* until the next command is forwarded.
C10_RemembersForwarded ==
    lastForwarded # << >> => LastCommand = lastForwarded[1]

\* C10 as the code has it: a flagged whitelist byte is forwarded exactly
\* when it differs from LastCommand, and the flagged branch always leaves
\* LastCommand = 0xFF, so LastCommand is 0x00 until the first flagged
\* payload and 0xFF from then on, never the forwarded command.
C10_LastCommandReset ==
    /\ [](LastCommand \in { 0, 255 })
    /\ [](lastForwarded # << >> => LastCommand = 255)
    /\ [][ (PollStep /\ SawNewCommandFlag /\ SPI1BUF # 255) =>
             /\ LastCommand' = 255
             /\ IF SPI1BUF \in ValidSet /\ SPI1BUF # LastCommand
                THEN Posted' = << SPI1BUF >>
                ELSE Posted' = << >> ]_vars

\* the first flagged payload after power-up was stop: it equalled
\* LastCommand, was not forwarded, and LastCommand is now 0xFF
C10_Witness ==
    /\ prevReply = << CMD_STOP >>
    /\ wire = "repeat"
    /\ lastForwarded = << >>
    /\ LastCommand = 255
    /\ Posted = << >>

(***************************************************************************)
(* Behaviour machine: MainLogicFSM.                                        *)
(***************************************************************************)
\* bound: events the rest of the program may have waiting in MainQueue
MaxQueue == 2

\* command parameters delivered to the machine
UnknownParams == StrayBytes \cup { NewCommandFlagByte }
CommandParams == ValidSet \cup UnknownParams

\* what a helper asks for: actuation requests and timers, in call order
Helper(request, timers) ==
    [ requests |-> << request >>, timers |-> timers ]

RotateCW90 ==
    Helper(MotorCommandWrapper(FULL_SPEED, FULL_SPEED, FORWARD, REVERSE),
           << [ timer |-> "SIMPLE_MOVE_TIMER", ms |-> SIMPLE_MOVE_90_MS ] >>)

\* faulty variant of RotateCW45: the timer of a 90 degree rotation
RotateCW45_LongTimer ==
    Helper(MotorCommandWrapper(FULL_SPEED, FULL_SPEED, FORWARD, REVERSE),
           << [ timer |-> "SIMPLE_MOVE_TIMER", ms |-> SIMPLE_MOVE_90_MS ] >>)

RotateCW45 ==
    Helper(MotorCommandWrapper(FULL_SPEED, FULL_SPEED, FORWARD, REVERSE),
           << [ timer |-> "SIMPLE_MOVE_TIMER", ms |-> SIMPLE_MOVE_45_MS ] >>)

\* faulty variant of RotateCCW90: the wheels turn as for a CW rotation
RotateCCW90_NotMirrored ==
    Helper(MotorCommandWrapper(FULL_SPEED, FULL_SPEED, FORWARD, REVERSE),
           << [ timer |-> "SIMPLE_MOVE_TIMER", ms |-> SIMPLE_MOVE_90_MS ] >>)

RotateCCW90 ==
    Helper(MotorCommandWrapper(FULL_SPEED, FULL_SPEED, REVERSE, FORWARD),
           << [ timer |-> "SIMPLE_MOVE_TIMER", ms |-> SIMPLE_MOVE_90_MS ] >>)

RotateCCW45 ==
    Helper(MotorCommandWrapper(FULL_SPEED, FULL_SPEED, REVERSE, FORWARD),
           << [ timer |-> "SIMPLE_MOVE_TIMER", ms |-> SIMPLE_MOVE_45_MS ] >>)

DriveForwardHalf ==
    Helper(MotorCommandWrapper(HALF_SPEED, HALF_SPEED, FORWARD, FORWARD),
           << >>)

DriveForwardFull ==
    Helper(MotorCommandWrapper(FULL_SPEED, FULL_SPEED, FORWARD, FORWARD),
           << >>)

DriveReverseHalf ==
    Helper(MotorCommandWrapper(HALF_SPEED, HALF_SPEED, REVERSE, REVERSE),
           << >>)

DriveReverseFull ==
    Helper(MotorCommandWrapper(FULL_SPEED, FULL_SPEED, REVERSE, REVERSE),
           << >>)

\* the ES_Timer_InitTimer(TAPE_SEARCH_TIMER, TAPE_SEARCH_MS) call is
\* commented out in the source
SearchForTape ==
    Helper(MotorCommandWrapper(FULL_SPEED, FULL_SPEED, FORWARD, FORWARD),
           << >>)

\* faulty variant of AlignWithBeacon: the spin is started without a timer
AlignWithBeacon_NoTimer ==
    Helper(MotorCommandWrapper(FULL_SPEED, FULL_SPEED, FORWARD, REVERSE),
           << >>)

AlignWithBeacon ==
    Helper(MotorCommandWrapper(FULL_SPEED, FULL_SPEED, FORWARD, REVERSE),
           << [ timer |-> "BEACON_ALIGN_TIMER", ms |-> BEACON_ALIGN_MS ] >>)

\* what one call of RunMainLogicFSM does
Outcome(next, requests, timers, posts) ==
    [ NextState |-> next, requests |-> requests, timers |-> timers,
      posts |-> posts ]

Ignored(state) == Outcome(state, << >>, << >>, << >>)

Start(next, helper) == Outcome(next, helper.requests, helper.timers, << >>)

\* faulty variant of StopAndReturn: the state is left with the motors running
StopAndReturn_NoRequest == Outcome("Stopped", << >>, << >>, << >>)

\* faulty variant of StopAndReturn: the motors are slowed, not stopped
StopAndReturn_HalfSpeed ==
    Outcome("Stopped",
            << MotorCommandWrapper(HALF_SPEED, HALF_SPEED, FORWARD, FORWARD) >>,
            << >>, << >>)

\* MotorCommandWrapper(0, 0, FORWARD, FORWARD); CurrentState = Stopped;
StopAndReturn == Outcome("Stopped", << ZeroActuation >>, << >>, << >>)

\* CurrentState = Stopped; PostMainLogicFSM(ThisEvent);
Preempt(ThisEvent) ==
    Outcome("Stopped", << >>, << >>,
            << Event(ThisEvent.EventType, ThisEvent.EventParam,
                     "reposted") >>)

\* faulty variant of AlignCommand: the spin is started whatever the pin reads
AlignCommand_NoShortcut(beacon) ==
    Start("AligningWithBeacon", AlignWithBeacon)

\* case CMD_ALIGN_BEACON, with beacon = ReadBeaconInputPin()
AlignCommand(beacon) ==
    IF beacon
    THEN Outcome("AligningWithBeacon", << >>, << >>,
                 << Event("ES_BEACON_DETECTED", 0, "synthetic") >>)
    ELSE Start("AligningWithBeacon", AlignWithBeacon)

\* faulty variant of SearchCommand: the drive is started whatever the pin reads
SearchCommand_NoShortcut(tape) ==
    Start("SearchingForTape", SearchForTape)

\* case CMD_SEARCH_TAPE, with tape = ReadTapeSensorPin()
SearchCommand(tape) ==
    IF tape
    THEN Outcome("SearchingForTape", << >>, << >>,
                 << Event("ES_TAPE_DETECTED", 0, "synthetic") >>)
    ELSE Start("SearchingForTape", SearchForTape)

\* faulty variant of UnknownCommand: an unknown parameter is taken as stop
UnknownCommand_AsStop ==
    Outcome("Stopped", << ZeroActuation >>, << >>, << >>)

\* default: break;
UnknownCommand == Ignored("Stopped")

\* case Stopped
DuringStopped(ThisEvent, beacon, tape) ==
    IF ThisEvent.EventType # "ES_COMMAND_RETRIEVED"
    THEN Ignored("Stopped")
    ELSE CASE ThisEvent.EventParam = CMD_STOP ->
                  Outcome("Stopped", << ZeroActuation >>, << >>, << >>)
           [] ThisEvent.EventParam = CMD_ROTATE_CW_90 ->
                  Start("SimpleMoving", RotateCW90)
           [] ThisEvent.EventParam = CMD_ROTATE_CW_45 ->
                  Start("SimpleMoving", RotateCW45)
           [] ThisEvent.EventParam = CMD_ROTATE_CCW_90 ->
                  Start("SimpleMoving", RotateCCW90)
           [] ThisEvent.EventParam = CMD_ROTATE_CCW_45 ->
                  Start("SimpleMoving", RotateCCW45)
           [] ThisEvent.EventParam = CMD_DRIVE_FWD_HALF ->
                  Start("SimpleMoving", DriveForwardHalf)
           [] ThisEvent.EventParam = CMD_DRIVE_FWD_FULL ->
                  Start("SimpleMoving", DriveForwardFull)
           [] ThisEvent.EventParam = CMD_DRIVE_REV_HALF ->
                  Start("SimpleMoving", DriveReverseHalf)
           [] ThisEvent.EventParam = CMD_DRIVE_REV_FULL ->
                  Start("SimpleMoving", DriveReverseFull)
           [] ThisEvent.EventParam = CMD_ALIGN_BEACON ->
                  AlignCommand(beacon)
           [] ThisEvent.EventParam = CMD_SEARCH_TAPE ->
                  SearchCommand(tape)
           [] OTHER -> UnknownCommand

IsTimeout(ThisEvent, timer) ==
    ThisEvent.EventType = "ES_TIMEOUT" /\ ThisEvent.EventParam = timer

\* faulty variant of DuringSimpleMoving: any timer's timeout ends the move
DuringSimpleMoving_AnyTimeout(ThisEvent) ==
    IF ThisEvent.EventType = "ES_TIMEOUT" THEN StopAndReturn
    ELSE IF ThisEvent.EventType = "ES_COMMAND_RETRIEVED"
    THEN Preempt(ThisEvent)
    ELSE Ignored("SimpleMoving")

\* case SimpleMoving
DuringSimpleMoving(ThisEvent) ==
    IF IsTimeout(ThisEvent, "SIMPLE_MOVE_TIMER") THEN StopAndReturn
    ELSE IF ThisEvent.EventType = "ES_COMMAND_RETRIEVED"
    THEN Preempt(ThisEvent)
    ELSE Ignored("SimpleMoving")

\* case SearchingForTape
DuringSearchingForTape(ThisEvent) ==
    IF ThisEvent.EventType = "ES_TAPE_DETECTED" THEN StopAndReturn
    ELSE IF IsTimeout(ThisEvent, "TAPE_SEARCH_TIMER") THEN StopAndReturn
    ELSE IF ThisEvent.EventType = "ES_COMMAND_RETRIEVED"
    THEN Preempt(ThisEvent)
    ELSE Ignored("SearchingForTape")

\* case AligningWithBeacon
DuringAligningWithBeacon(ThisEvent) ==
    IF ThisEvent.EventType = "ES_BEACON_DETECTED" THEN StopAndReturn
    ELSE IF IsTimeout(ThisEvent, "BEACON_ALIGN_TIMER") THEN StopAndReturn
    ELSE IF ThisEvent.EventType = "ES_COMMAND_RETRIEVED"
    THEN Preempt(ThisEvent)
    ELSE Ignored("AligningWithBeacon")

\* switch (CurrentState)
Dispatch(state, ThisEvent, beacon, tape) ==
    CASE state = "Stopped" -> DuringStopped(ThisEvent, beacon, tape)
      [] state = "SimpleMoving" -> DuringSimpleMoving(ThisEvent)
      [] state = "SearchingForTape" -> DuringSearchingForTape(ThisEvent)
      [] state = "AligningWithBeacon" -> DuringAligningWithBeacon(ThisEvent)

\* history: the pin level the call read, if it read one
PinRead(state, ThisEvent, beacon, tape) ==
    IF state # "Stopped" \/ ThisEvent.EventType # "ES_COMMAND_RETRIEVED"
    THEN << >>
    ELSE IF ThisEvent.EventParam = CMD_ALIGN_BEACON THEN << beacon >>
    ELSE IF ThisEvent.EventParam = CMD_SEARCH_TAPE THEN << tape >>
    ELSE << >>

\* history: timeouts still waiting when the machine returns to Stopped
\* belong to an action that is over
Outdated(queue) ==
    [ i \in 1..Len(queue) |->
        IF queue[i].EventType = "ES_TIMEOUT"
        THEN Event("ES_TIMEOUT", queue[i].EventParam, "stale")
        ELSE queue[i] ]

TimersOf(timers) == { timers[i].timer : i \in 1..Len(timers) }

\* the framework takes the oldest event of MainQueue and calls
\* RunMainLogicFSM with it; beacon and tape are the levels of the input pins
RunMainLogicFSM_Step(beacon, tape) ==
    /\ MainQueue # << >>
    /\ LET ThisEvent == Head(MainQueue)
           out == Dispatch(MainLogicState, ThisEvent, beacon, tape)
           left == MainLogicState # "Stopped" /\ out.NextState = "Stopped"
       IN /\ MainLogicState' = out.NextState
          /\ MainQueue' = (IF left THEN Outdated(Tail(MainQueue))
                           ELSE Tail(MainQueue)) \o out.posts
          /\ DesiredSpeed' =
               IF out.requests = << >> THEN DesiredSpeed
               ELSE out.requests[Len(out.requests)].DesiredSpeed
          /\ DesiredDirection' =
               IF out.requests = << >> THEN DesiredDirection
               ELSE out.requests[Len(out.requests)].DesiredDirection
          /\ TimerActive' = TimerActive \cup TimersOf(out.timers)
          /\ armedHere' = IF left THEN { }
                          ELSE armedHere \cup TimersOf(out.timers)
          /\ Handled' = << [ State |-> MainLogicState, Event |-> ThisEvent,
                             pin |-> PinRead(MainLogicState, ThisEvent,
                                             beacon, tape) ] >>
          /\ MotorRequest' = out.requests
          /\ Armed' = out.timers
          /\ SelfPosted' = out.posts
    /\ UNCHANGED responderVars
    /\ UNCHANGED pollerVars
    /\ UNCHANGED engineVars

RunMainLogicFSM(beacon, tape) ==
    /\ RunMainLogicFSM_Step(beacon, tape)
    /\ UNCHANGED restVars

\* PostMainLogicFSM(event) from outside the machine, when there is room
PostMainLogicFSM_Step(event, room) ==
    /\ room
    /\ MainQueue' = Append(MainQueue, event)
    /\ Handled' = << >>
    /\ MotorRequest' = << >>
    /\ Armed' = << >>
    /\ SelfPosted' = << >>
    /\ UNCHANGED << MainLogicState, DesiredSpeed, DesiredDirection >>
    /\ UNCHANGED responderVars
    /\ UNCHANGED pollerVars
    /\ UNCHANGED engineVars

Post(event, room) ==
    /\ PostMainLogicFSM_Step(event, room)
    /\ UNCHANGED restVars

\* the Poller forwards a command: ES_COMMAND_RETRIEVED
CommandRetrieved(command, room) ==
    /\ Post(Event("ES_COMMAND_RETRIEVED", command, "new"), room)
    /\ UNCHANGED << TimerActive, armedHere >>

\* Check4TapeDetected posts ES_TAPE_DETECTED
TapeDetected(room) ==
    /\ Post(Event("ES_TAPE_DETECTED", 0, "checker"), room)
    /\ UNCHANGED << TimerActive, armedHere >>

\* Check4BeaconDetected posts ES_BEACON_DETECTED
BeaconDetected(room) ==
    /\ Post(Event("ES_BEACON_DETECTED", 0, "checker"), room)
    /\ UNCHANGED << TimerActive, armedHere >>

\* a running timer runs out: ES_TIMEOUT with the timer as parameter
TimerExpires(timer, room) ==
    /\ timer \in TimerActive
    /\ Post(Event("ES_TIMEOUT", timer,
                  IF timer \in armedHere THEN "own" ELSE "stale"), room)
    /\ TimerActive' = TimerActive \ { timer }
    /\ armedHere' = armedHere \ { timer }

TimerIds == { "SIMPLE_MOVE_TIMER", "TAPE_SEARCH_TIMER", "BEACON_ALIGN_TIMER" }

AnyRunMainLogicFSM ==
    \E beacon, tape \in BOOLEAN : RunMainLogicFSM(beacon, tape)

(***************************************************************************)
(* DispatchSpec: every command parameter, each event delivered once the    *)
(* machine has handled the earlier ones.                                   *)
(***************************************************************************)
Idle == MainQueue = << >>

DispatchCommand == \E command \in CommandParams : CommandRetrieved(command, Idle)

DispatchTape == TapeDetected(Idle)

DispatchBeacon == BeaconDetected(Idle)

DispatchTimer == \E timer \in TimerIds : TimerExpires(timer, Idle)

DispatchNext ==
    \/ DispatchCommand
    \/ DispatchTape
    \/ DispatchBeacon
    \/ DispatchTimer
    \/ AnyRunMainLogicFSM

DispatchSpec == Init /\ [][DispatchNext]_vars

(***************************************************************************)
(* LogicSpec: one command of each kind, events arriving while earlier ones *)
(* are still waiting.                                                      *)
(***************************************************************************)
LogicCommands == { CMD_STOP, CMD_ROTATE_CW_90, CMD_DRIVE_FWD_FULL,
                   CMD_ALIGN_BEACON, CMD_SEARCH_TAPE }

Room == Len(MainQueue) < MaxQueue

LogicCommand == \E command \in LogicCommands : CommandRetrieved(command, Room)

LogicTape == TapeDetected(Room)

LogicBeacon == BeaconDetected(Room)

LogicTimer == \E timer \in TimerIds : TimerExpires(timer, Room)

LogicNext ==
    \/ LogicCommand
    \/ LogicTape
    \/ LogicBeacon
    \/ LogicTimer
    \/ AnyRunMainLogicFSM

LogicSpec == Init /\ [][LogicNext]_vars

\* the framework keeps calling RunMainLogicFSM while events are waiting, and
\* a running BEACON_ALIGN_TIMER runs out
LogicFairSpec ==
    /\ LogicSpec
    /\ WF_vars(AnyRunMainLogicFSM)
    /\ SF_vars(TimerExpires("BEACON_ALIGN_TIMER", Room))

(***************************************************************************)
(* Properties of the behaviour machine.                                    *)
(***************************************************************************)
\* the latest step was RunMainLogicFSM, called in state with an event of type
HandledEvent(state, type) ==
    /\ Handled # << >>
    /\ Handled[1].State = state
    /\ Handled[1].Event.EventType = type

\* the latest step was RunMainLogicFSM, called in state with this command
HandledCommand(state, command) ==
    /\ HandledEvent(state, "ES_COMMAND_RETRIEVED")
    /\ Handled[1].Event.EventParam = command

\* the latest step was RunMainLogicFSM, called in state with this timeout
HandledTimeout(state, timer) ==
    /\ HandledEvent(state, "ES_TIMEOUT")
    /\ Handled[1].Event.EventParam = timer

Rotations90 == { CMD_ROTATE_CW_90, CMD_ROTATE_CCW_90 }
Rotations45 == { CMD_ROTATE_CW_45, CMD_ROTATE_CCW_45 }
Drives == { CMD_DRIVE_FWD_HALF, CMD_DRIVE_FWD_FULL,
            CMD_DRIVE_REV_HALF, CMD_DRIVE_REV_FULL }

C12_TimerClass ==
    /\ \A c \in Rotations90 :
         HandledCommand("Stopped", c) =>
           /\ Armed = << [ timer |-> "SIMPLE_MOVE_TIMER",
                           ms |-> SIMPLE_MOVE_90_MS ] >>
           /\ "SIMPLE_MOVE_TIMER" \in TimerActive
    /\ \A c \in Rotations45 :
         HandledCommand("Stopped", c) =>
           /\ Armed = << [ timer |-> "SIMPLE_MOVE_TIMER",
                           ms |-> SIMPLE_MOVE_45_MS ] >>
           /\ "SIMPLE_MOVE_TIMER" \in TimerActive
    /\ \A c \in Drives : HandledCommand("Stopped", c) => Armed = << >>
    /\ ( /\ HandledTimeout("SimpleMoving", "SIMPLE_MOVE_TIMER")
         /\ Handled[1].Event.tag = "own" ) => MainLogicState = "Stopped"

\* a rotation by 45 degrees has been dispatched and its timer is running
C12_Witness ==
    /\ HandledCommand("Stopped", CMD_ROTATE_CW_45)
    /\ Armed = << [ timer |-> "SIMPLE_MOVE_TIMER", ms |-> SIMPLE_MOVE_45_MS ] >>
    /\ "SIMPLE_MOVE_TIMER" \in TimerActive

\* C20: an ES_COMMAND_RETRIEVED event whose parameter is not one of the 11
\* command codes, handled in Stopped, is dropped: the state stays Stopped,
\* no actuation is requested, no timer is armed, no event is posted.
C20_UnknownCommandDropped ==
    \A c \in CommandParams \ ValidSet :
      HandledCommand("Stopped", c) =>
        /\ MainLogicState = "Stopped"
        /\ MotorRequest = << >>
        /\ Armed = << >>
        /\ SelfPosted = << >>

\* an unknown parameter has been handled in Stopped
C20_Witness ==
    /\ HandledCommand("Stopped", NewCommandFlagByte)
    /\ MainLogicState = "Stopped"
    /\ MotorRequest = << >>

\* the pin level read by the latest step
PinWas(level) == Handled # << >> /\ Handled[1].pin = << level >>

CommandWaiting ==
    \E i \in 1..Len(MainQueue) : MainQueue[i].EventType = "ES_COMMAND_RETRIEVED"

\* C13: search timeout. The dispatch of search-for-tape from Stopped with
\* tape not already detected arms TAPE_SEARCH_TIMER, which is running
\* afterwards (so that the search ends when it expires).
C13_SearchTimerArmed ==
    ( HandledCommand("Stopped", CMD_SEARCH_TAPE) /\ PinWas(FALSE) ) =>
      /\ \E i \in 1..Len(Armed) : Armed[i].timer = "TAPE_SEARCH_TIMER"
      /\ "TAPE_SEARCH_TIMER" \in TimerActive

\* C14: alignment timeout. The dispatch of align-with-beacon from Stopped
\* with the beacon not already detected arms BEACON_ALIGN_TIMER with
\* BEACON_ALIGN_MS, which is running afterwards; and an alignment always ends:
\* from AligningWithBeacon the machine reaches Stopped by a step that
\* requests zero actuation, unless a command is waiting to be handled.
C14_AlignmentTimeout ==
    /\ [] ( ( HandledCommand("Stopped", CMD_ALIGN_BEACON) /\ PinWas(FALSE) ) =>
              /\ Armed = << [ timer |-> "BEACON_ALIGN_TIMER",
                              ms |-> BEACON_ALIGN_MS ] >>
              /\ "BEACON_ALIGN_TIMER" \in TimerActive )
    /\ ( MainLogicState = "AligningWithBeacon" ~>
           \/ /\ MainLogicState = "Stopped"
              /\ MotorRequest = << MotorCommandWrapper(0, 0, FORWARD, FORWARD) >>
           \/ CommandWaiting )

\* the alignment timer has run out during a spin and has ended it
C14_Witness ==
    /\ HandledTimeout("AligningWithBeacon", "BEACON_ALIGN_TIMER")
    /\ Handled[1].Event.tag = "own"
    /\ MainLogicState = "Stopped"
    /\ DesiredSpeed = << 0, 0 >>

\* C15: a timeout armed by one action never ends a later action. A timeout
\* whose timer was armed by an action that is over (tag "stale": the machine
\* has returned to Stopped since the timer was armed) changes neither the
\* state nor the actuation when it is handled.
C15_StaleTimeoutIgnored ==
    ( Handled # << >> /\ Handled[1].Event.EventType = "ES_TIMEOUT"
                      /\ Handled[1].Event.tag = "stale" ) =>
      /\ MainLogicState = Handled[1].State
      /\ MotorRequest = << >>

Moving == { "SimpleMoving", "SearchingForTape", "AligningWithBeacon" }

\* C16: preemption by re-post. A command handled in SimpleMoving,
\* SearchingForTape or AligningWithBeacon sets the state to Stopped and posts
\* that command, once, to the machine's own queue; a re-posted command is
\* handled in Stopped and so is never re-posted again.
C16_SingleHop ==
    /\ \A state \in Moving :
         HandledEvent(state, "ES_COMMAND_RETRIEVED") =>
           /\ MainLogicState = "Stopped"
           /\ Len(SelfPosted) = 1
           /\ SelfPosted[1].EventType = "ES_COMMAND_RETRIEVED"
           /\ SelfPosted[1].EventParam = Handled[1].Event.EventParam
           /\ MainQueue # << >>
           /\ MainQueue[Len(MainQueue)] = SelfPosted[1]
    /\ ( Handled # << >> /\ Handled[1].Event.tag = "reposted" ) =>
         Handled[1].State = "Stopped"

\* the latest step handled the machine's own timer or its own sensor event
OwnExit ==
    \/ HandledTimeout("SimpleMoving", "SIMPLE_MOVE_TIMER")
    \/ HandledTimeout("SearchingForTape", "TAPE_SEARCH_TIMER")
    \/ HandledEvent("SearchingForTape", "ES_TAPE_DETECTED")
    \/ HandledTimeout("AligningWithBeacon", "BEACON_ALIGN_TIMER")
    \/ HandledEvent("AligningWithBeacon", "ES_BEACON_DETECTED")

\* C17: when the machine leaves SimpleMoving, SearchingForTape or
\* AligningWithBeacon because of its own timer (SIMPLE_MOVE_TIMER,
\* TAPE_SEARCH_TIMER, BEACON_ALIGN_TIMER) or its own sensor event
\* (tape-detected, beacon-detected), that dispatch issues the zero-actuation
\* request (0, 0, FORWARD, FORWARD) and the next state is Stopped.
C17_OwnExitStops ==
    OwnExit =>
      /\ MotorRequest = << MotorCommandWrapper(0, 0, FORWARD, FORWARD) >>
      /\ DesiredSpeed = << 0, 0 >>
      /\ DesiredDirection = << FORWARD, FORWARD >>
      /\ MainLogicState = "Stopped"

\* tape has been detected during a search and has ended it
C17_Witness ==
    /\ HandledEvent("SearchingForTape", "ES_TAPE_DETECTED")
    /\ Handled[1].Event.tag = "checker"
    /\ MainLogicState = "Stopped"
    /\ MotorRequest # << >>

\* C18: align shortcut and scenario. Align-with-beacon dispatched from
\* Stopped while the beacon input reads positive starts no actuation and no
\* timer, queues one synthetic beacon-detected event and enters
\* AligningWithBeacon; dispatched while the beacon is absent it starts the
\* spin (left forward / right reverse at FULL_SPEED) and posts nothing; a
\* beacon-detected event handled in AligningWithBeacon, the synthetic one
\* included, requests zero actuation and returns the machine to Stopped; the
\* alignment timeout handled after that return, in Stopped, changes neither
\* state nor actuation.
C18_AlignShortcut ==
    /\ ( HandledCommand("Stopped", CMD_ALIGN_BEACON) /\ PinWas(TRUE) ) =>
         /\ MotorRequest = << >>
         /\ Armed = << >>
         /\ Len(SelfPosted) = 1
         /\ SelfPosted[1].EventType = "ES_BEACON_DETECTED"
         /\ MainQueue # << >>
         /\ MainQueue[Len(MainQueue)] = SelfPosted[1]
         /\ MainLogicState = "AligningWithBeacon"
    /\ ( HandledCommand("Stopped", CMD_ALIGN_BEACON) /\ PinWas(FALSE) ) =>
         /\ MotorRequest = << MotorCommandWrapper(FULL_SPEED, FULL_SPEED,
                                                  FORWARD, REVERSE) >>
         /\ SelfPosted = << >>
         /\ MainLogicState = "AligningWithBeacon"
    /\ HandledEvent("AligningWithBeacon", "ES_BEACON_DETECTED") =>
         /\ MotorRequest = << MotorCommandWrapper(0, 0, FORWARD, FORWARD) >>
         /\ DesiredSpeed = << 0, 0 >>
         /\ MainLogicState = "Stopped"
    /\ HandledTimeout("Stopped", "BEACON_ALIGN_TIMER") =>
         /\ MotorRequest = << >>
         /\ Armed = << >>
         /\ SelfPosted = << >>
         /\ MainLogicState = "Stopped"

\* the synthetic beacon-detected event of a shortcut has been handled
C18_Witness ==
    /\ HandledEvent("AligningWithBeacon", "ES_BEACON_DETECTED")
    /\ Handled[1].Event.tag = "synthetic"
    /\ MainLogicState = "Stopped"
    /\ DesiredSpeed = << 0, 0 >>

\* C19: search shortcut. Search-for-tape dispatched from Stopped while the
\* tape input reads positive starts no drive and no timer, queues one
\* synthetic tape-detected event and enters SearchingForTape; that event,
\* handled in SearchingForTape, requests zero actuation and returns the
\* machine to Stopped.
C19_SearchShortcut ==
    /\ ( HandledCommand("Stopped", CMD_SEARCH_TAPE) /\ PinWas(TRUE) ) =>
         /\ MotorRequest = << >>
         /\ Armed = << >>
         /\ Len(SelfPosted) = 1
         /\ SelfPosted[1].EventType = "ES_TAPE_DETECTED"
         /\ MainQueue # << >>
         /\ MainQueue[Len(MainQueue)] = SelfPosted[1]
         /\ MainLogicState = "SearchingForTape"
    /\ ( /\ HandledEvent("SearchingForTape", "ES_TAPE_DETECTED")
         /\ Handled[1].Event.tag = "synthetic" ) =>
         /\ MotorRequest = << MotorCommandWrapper(0, 0, FORWARD, FORWARD) >>
         /\ DesiredSpeed = << 0, 0 >>
         /\ MainLogicState = "Stopped"

\* the synthetic tape-detected event of a shortcut has been handled
C19_Witness ==
    /\ HandledEvent("SearchingForTape", "ES_TAPE_DETECTED")
    /\ Handled[1].Event.tag = "synthetic"
    /\ MainLogicState = "Stopped"
    /\ MotorRequest = << MotorCommandWrapper(0, 0, FORWARD, FORWARD) >>

\* the timer whose timeout a state acts on, if it has one
StateTimer(state) ==
    CASE state = "SimpleMoving" -> << "SIMPLE_MOVE_TIMER" >>
      [] state = "SearchingForTape" -> << "TAPE_SEARCH_TIMER" >>
      [] state = "AligningWithBeacon" -> << "BEACON_ALIGN_TIMER" >>
      [] OTHER -> << >>

\* the latest step was RunMainLogicFSM with an event that does not belong
\* to the state it was called in
HandledForeign ==
    /\ Handled # << >>
    /\ \/ /\ Handled[1].Event.EventType = "ES_BEACON_DETECTED"
          /\ Handled[1].State # "AligningWithBeacon"
       \/ /\ Handled[1].Event.EventType = "ES_TAPE_DETECTED"
          /\ Handled[1].State # "SearchingForTape"
       \/ /\ Handled[1].Event.EventType = "ES_TIMEOUT"
          /\ StateTimer(Handled[1].State)
                 # << Handled[1].Event.EventParam >>

\* C30: an event that does not belong to the current state is ignored:
\* beacon-detected outside AligningWithBeacon, tape-detected outside
\* SearchingForTape, and a timeout of another timer than the state's own
\* (any timeout in Stopped) leave the state as it was, request no actuation,
\* start no timer and post no event.
C30_ForeignEventsIgnored ==
    HandledForeign =>
        /\ MainLogicState = Handled[1].State
        /\ MotorRequest = << >>
        /\ Armed = << >>
        /\ SelfPosted = << >>

\* the timeout of the alignment timer, left running by an alignment that a
\* command ended, is handled during a simple move
C30_Witness ==
    /\ HandledTimeout("SimpleMoving", "BEACON_ALIGN_TIMER")
    /\ MainLogicState = "SimpleMoving"
    /\ MotorRequest = << >>

(***************************************************************************)
(* Beacon engine: unsigned 32-bit arithmetic on << high, low >> pairs       *)
(***************************************************************************)
Word(high, low) == << high, low >>

\* a + b in uint32_t
Add32(a, b) ==
    LET low == a[2] + b[2]
    IN  Word((a[1] + b[1] + (low \div Range16)) % Range16, low % Range16)

\* a + b does not fit in uint32_t
Carries32(a, b) ==
    a[1] + b[1] + ((a[2] + b[2]) \div Range16) >= Range16

\* a - b in uint32_t
Sub32(a, b) ==
    LET borrow == IF a[2] < b[2] THEN 1 ELSE 0
    IN  Word((a[1] - b[1] - borrow + 2 * Range16) % Range16,
             (a[2] - b[2] + Range16) % Range16)

\* a < b in uint32_t
Lt32(a, b) ==
    \/ a[1] < b[1]
    \/ a[1] = b[1] /\ a[2] < b[2]

\* k * a in uint32_t, for a small constant k
Mul32(k, a) ==
    LET low == k * a[2]
    IN  Word((k * a[1] + (low \div Range16)) % Range16, low % Range16)

\* a / d in uint32_t, for a small constant d
Div32(a, d) ==
    Word(a[1] \div d, ((a[1] % d) * Range16 + a[2]) \div d)

(***************************************************************************)
(* Beacon engine: capture timer, input capture and the two interrupt        *)
(* routines.  The timer is followed at the counts where the routines'       *)
(* tests change; an interrupt is served before the timer has advanced by    *)
(* half its range, which is what the 0x8000 test of InputCaptureISR         *)
(* relies on.                                                               *)
(***************************************************************************)
\* rollovers of the capture timer followed
MaxRollovers == 3

\* edge events the engine's queue holds
MaxPending == 3

\* 0x8000 in InputCaptureISR
HalfRange == 32768

TimerPoints == << 0, 1, HalfRange - 1, HalfRange, Range16 - 1 >>

NextPoint(count) ==
    LET i == CHOOSE k \in 1..Len(TimerPoints) : TimerPoints[k] = count
    IN  TimerPoints[(i % Len(TimerPoints)) + 1]

\* ticks from the true time a to the true time b, both << rollovers, count >>
Elapsed(a, b) == (b[1] - a[1]) * Range16 + b[2] - a[2]

\* the two latest entries of a history
Latest(history) ==
    IF Len(history) > 2 THEN SubSeq(history, Len(history) - 1, Len(history))
    ELSE history

\* Timer 3 counts on; at the period match it rolls over and raises T3IF
Tick ==
    LET rolls == TMR3 = Range16 - 1
        now   == << IF rolls THEN hwRollovers + 1 ELSE hwRollovers,
                    NextPoint(TMR3) >>
    IN  /\ rolls => hwRollovers < MaxRollovers
        /\ IC1IF => Elapsed(trueCapture, now) < HalfRange
        /\ T3IF => ~rolls /\ NextPoint(TMR3) < HalfRange
        /\ TMR3' = NextPoint(TMR3)
        /\ T3IF' = (T3IF \/ rolls)
        /\ hwRollovers' = now[1]
        /\ edgeReady' = TRUE
        /\ UNCHANGED << IC1IF, IC1BUF, RolloverCounter, CapturedTime,
                        Timer3ISRAt, trueCapture, stamps >>
        /\ UNCHANGED serviceVars
        /\ UNCHANGED responderVars
        /\ UNCHANGED pollerVars
        /\ UNCHANGED logicVars
        /\ UNCHANGED restVars

\* Input capture 1 latches the timer on the 16th rising edge
Capture ==
    /\ ~IC1IF
    /\ edgeReady
    /\ BeaconQueue < MaxPending
    /\ IC1BUF' = TMR3
    /\ IC1IF' = TRUE
    /\ trueCapture' = << hwRollovers, TMR3 >>
    /\ edgeReady' = FALSE
    /\ UNCHANGED << TMR3, T3IF, RolloverCounter, CapturedTime, Timer3ISRAt,
                    hwRollovers, stamps >>
    /\ UNCHANGED serviceVars
    /\ UNCHANGED responderVars
    /\ UNCHANGED pollerVars
    /\ UNCHANGED logicVars
    /\ UNCHANGED restVars

InputCaptureISR_AnyCapture ==
    LET capturedTimer16 == IC1BUF
        counts  == T3IF
        counter == IF counts THEN (RolloverCounter + 1) % Range16
                   ELSE RolloverCounter
    IN  /\ IC1IF
        /\ IC1IF' = FALSE
        /\ RolloverCounter' = counter
        /\ T3IF' = (T3IF /\ ~counts)
        /\ CapturedTime' = Word(counter, capturedTimer16)
        /\ BeaconQueue' = BeaconQueue + 1
        /\ stamps' = Latest(Append(stamps,
                                   << Word(counter, capturedTimer16),
                                      trueCapture >>))
        /\ UNCHANGED << TMR3, IC1BUF, Timer3ISRAt, edgeReady, hwRollovers,
                        trueCapture >>
        /\ UNCHANGED << LastCapturedTime, SmoothedTimeLapse, FirstSample,
                        PrintTimer, ZeroDivision, samples, Sample >>
        /\ UNCHANGED responderVars
        /\ UNCHANGED pollerVars
        /\ UNCHANGED logicVars
        /\ UNCHANGED restVars

\* InputCaptureISR, priority 7: runs whole as soon as IC1IF is raised
InputCaptureISR ==
    LET capturedTimer16 == IC1BUF
        counts  == T3IF /\ capturedTimer16 < HalfRange
        counter == IF counts THEN (RolloverCounter + 1) % Range16
                   ELSE RolloverCounter
    IN  /\ IC1IF
        /\ IC1IF' = FALSE
        /\ RolloverCounter' = counter
        /\ T3IF' = (T3IF /\ ~counts)
        /\ CapturedTime' = Word(counter, capturedTimer16)
        /\ BeaconQueue' = BeaconQueue + 1
        /\ stamps' = Latest(Append(stamps,
                                   << Word(counter, capturedTimer16),
                                      trueCapture >>))
        /\ UNCHANGED << TMR3, IC1BUF, Timer3ISRAt, edgeReady, hwRollovers,
                        trueCapture >>
        /\ UNCHANGED << LastCapturedTime, SmoothedTimeLapse, FirstSample,
                        PrintTimer, ZeroDivision, samples, Sample >>
        /\ UNCHANGED responderVars
        /\ UNCHANGED pollerVars
        /\ UNCHANGED logicVars
        /\ UNCHANGED restVars

\* Timer3ISR, priority 6, is entered on T3IF unless InputCaptureISR is due
Timer3ISR_Enter ==
    /\ T3IF
    /\ ~IC1IF
    /\ Timer3ISRAt = "idle"
    /\ Timer3ISRAt' = "entered"
    /\ UNCHANGED << TMR3, T3IF, IC1IF, IC1BUF, RolloverCounter, CapturedTime,
                    edgeReady, hwRollovers, trueCapture, stamps >>
    /\ UNCHANGED serviceVars
    /\ UNCHANGED responderVars
    /\ UNCHANGED pollerVars
    /\ UNCHANGED logicVars
    /\ UNCHANGED restVars

Timer3ISR_Body_NoFlagTest ==
    /\ Timer3ISRAt = "entered"
    /\ ~IC1IF
    /\ RolloverCounter' = (RolloverCounter + 1) % Range16
    /\ T3IF' = FALSE
    /\ Timer3ISRAt' = "idle"
    /\ UNCHANGED << TMR3, IC1IF, IC1BUF, CapturedTime, edgeReady,
                    hwRollovers, trueCapture, stamps >>
    /\ UNCHANGED serviceVars
    /\ UNCHANGED responderVars
    /\ UNCHANGED pollerVars
    /\ UNCHANGED logicVars
    /\ UNCHANGED restVars

\* Timer3ISR between __builtin_disable_interrupts() and
\* __builtin_enable_interrupts(): nothing interleaves
Timer3ISR_Body ==
    /\ Timer3ISRAt = "entered"
    /\ ~IC1IF
    /\ RolloverCounter' = IF T3IF THEN (RolloverCounter + 1) % Range16
                          ELSE RolloverCounter
    /\ T3IF' = FALSE
    /\ Timer3ISRAt' = "idle"
    /\ UNCHANGED << TMR3, IC1IF, IC1BUF, CapturedTime, edgeReady,
                    hwRollovers, trueCapture, stamps >>
    /\ UNCHANGED serviceVars
    /\ UNCHANGED responderVars
    /\ UNCHANGED pollerVars
    /\ UNCHANGED logicVars
    /\ UNCHANGED restVars

(***************************************************************************)
(* Beacon engine: RunBeaconDetectService                                    *)
(***************************************************************************)
TIMER_PRESCALE == 256
IC_PRESCALE == 16
PBCLK_FREQ == 20000000
TARGET_BEACON_FREQ == 1427
BEACON_FREQ_TOLERANCE == 50

\* uint32_t timerClock = PBCLK_FREQ / TIMER_PRESCALE
timerClock == PBCLK_FREQ \div TIMER_PRESCALE

\* what a call of CalculateFrequency does: it returns value, or it traps;
\* zero tells that it divided by zero
Returns(value) == [ trap |-> FALSE, value |-> value, zero |-> FALSE ]
Unpredictable(value) == [ trap |-> FALSE, value |-> value, zero |-> TRUE ]
Traps == [ trap |-> TRUE, value |-> 0, zero |-> TRUE ]

\* the engine has stopped in the exception a trapping division raised
Halted == ZeroDivision = "traps"

\* what is known of the build after a call
Build(outcome) ==
    IF ~outcome.zero THEN ZeroDivision
    ELSE IF outcome.trap THEN "traps"
    ELSE "returns"

\* timerClock / divisor for a non-zero uint32_t divisor
Quotient(divisor) ==
    IF divisor[1] > 1 THEN 0
    ELSE timerClock \div (divisor[1] * Range16 + divisor[2])

\* A division by zero is undefined.  A build that tests the divisor
\* traps, every time; in a build that does not, the divide instruction
\* leaves an unpredictable quotient (here one below, one inside and one
\* above the detection band).
DivisionByZero ==
    LET quotients == { Unpredictable(0), Unpredictable(TARGET_BEACON_FREQ),
                       Unpredictable(timerClock) }
    IN  IF ZeroDivision = "traps" THEN { Traps }
        ELSE IF ZeroDivision = "returns" THEN quotients
        ELSE quotients \cup { Traps }

CalculateFrequency_NoZeroTest(timeLapse) ==
    LET divisor == Mul32(IC_PRESCALE, timeLapse)
    IN  IF divisor = Word(0, 0) THEN DivisionByZero
        ELSE { Returns(Quotient(divisor)) }

\* CalculateFrequency: the outcomes of a call
CalculateFrequency(timeLapse) ==
    IF timeLapse = Word(0, 0) THEN { Returns(0) }
    ELSE LET divisor == Mul32(IC_PRESCALE, timeLapse)
         IN  IF divisor = Word(0, 0) THEN DivisionByZero
             ELSE { Returns(Quotient(divisor)) }

Interval(value, overflow) == [ value |-> value, overflow |-> overflow ]

TimeLapse_NoPlusOne(CurrentCapturedTime, last) ==
    IF ~Lt32(CurrentCapturedTime, last)
    THEN Interval(Sub32(CurrentCapturedTime, last), FALSE)
    ELSE LET gap == Sub32(TIMER_MAX_PERIOD, last)
         IN  Interval(Add32(gap, CurrentCapturedTime),
                      Carries32(gap, CurrentCapturedTime))

\* timeLapse of the edge handler, and whether a sum in it left 32 bits
TimeLapse(CurrentCapturedTime, last) ==
    IF ~Lt32(CurrentCapturedTime, last)
    THEN Interval(Sub32(CurrentCapturedTime, last), FALSE)
    ELSE LET gap == Sub32(TIMER_MAX_PERIOD, last)
             sum == Add32(gap, CurrentCapturedTime)
         IN  Interval(Add32(sum, Word(0, 1)),
                      \/ Carries32(gap, CurrentCapturedTime)
                      \/ Carries32(sum, Word(0, 1)))

\* the update of SmoothedTimeLapse
Smooth(first, timeLapse, smoothed) ==
    IF first THEN timeLapse
    ELSE Div32(Add32(timeLapse, Mul32(5, smoothed)), 6)

\* the test of the detection band
InBand(frequency) ==
    /\ frequency >= TARGET_BEACON_FREQ - BEACON_FREQ_TOLERANCE
    /\ frequency <= TARGET_BEACON_FREQ + BEACON_FREQ_TOLERANCE

Detection_OncePerEntry(frequency) ==
    IF InBand(frequency) /\ ~(Sample # << >> /\ Sample[1].posted # << >>)
    THEN << Event("ES_BEACON_DETECTED", frequency, "engine") >>
    ELSE << >>

\* what the edge handler posts to the behaviour machine
Detection(frequency) ==
    IF InBand(frequency)
    THEN << Event("ES_BEACON_DETECTED", frequency, "engine") >>
    ELSE << >>

\* PostMainLogicFSM from the engine
PostMainLogicFSM(events) ==
    /\ MainQueue' = MainQueue \o events
    /\ IF events = << >>
       THEN UNCHANGED << Handled, MotorRequest, Armed, SelfPosted >>
       ELSE /\ Handled' = << >>
            /\ MotorRequest' = << >>
            /\ Armed' = << >>
            /\ SelfPosted' = << >>
    /\ UNCHANGED << MainLogicState, DesiredSpeed, DesiredDirection,
                    TimerActive, armedHere >>

\* history: what a step of RunBeaconDetectService saw and did
Step(event, measured, lapse, outcome, posted) ==
    [ event     |-> event,
      last      |-> LastCapturedTime,
      current   |-> CapturedTime,
      measured  |-> measured,
      timeLapse |-> lapse,
      first     |-> FirstSample,
      previous  |-> SmoothedTimeLapse,
      outcome   |-> outcome,
      posted    |-> posted ]

\* case ES_NEW_SIGNAL_EDGE
RunBeaconDetectService_EdgeStep ==
    LET CurrentCapturedTime == CapturedTime
        lapse    == TimeLapse(CurrentCapturedTime, LastCapturedTime)
        smoothed == Smooth(FirstSample, lapse.value, SmoothedTimeLapse)
    IN  /\ BeaconQueue > 0
        /\ ~Halted
        /\ Room
        /\ BeaconQueue' = BeaconQueue - 1
        /\ IF LastCapturedTime = INVALID_TIME
           THEN /\ LastCapturedTime' = CurrentCapturedTime
                /\ Sample' = << Step("ES_NEW_SIGNAL_EDGE", FALSE,
                                     Interval(Word(0, 0), FALSE),
                                     << >>, << >>) >>
                /\ PostMainLogicFSM(<< >>)
                /\ UNCHANGED << SmoothedTimeLapse, FirstSample, ZeroDivision >>
           ELSE \E outcome \in CalculateFrequency(smoothed) :
                /\ SmoothedTimeLapse' = smoothed
                /\ FirstSample' = FALSE
                /\ ZeroDivision' = Build(outcome)
                /\ LastCapturedTime' = IF outcome.trap THEN LastCapturedTime
                                       ELSE CurrentCapturedTime
                /\ LET posted == IF outcome.trap THEN << >>
                                 ELSE Detection(outcome.value)
                   IN  /\ PostMainLogicFSM(posted)
                       /\ Sample' = << Step("ES_NEW_SIGNAL_EDGE", TRUE,
                                            lapse, << outcome >>, posted) >>
        /\ UNCHANGED << PrintTimer, samples >>
        /\ UNCHANGED captureVars
        /\ UNCHANGED responderVars
        /\ UNCHANGED pollerVars

RunBeaconDetectService_Edge ==
    /\ RunBeaconDetectService_EdgeStep
    /\ UNCHANGED restVars

\* PRINT_FREQUENCY_TIMER runs out: ES_TIMEOUT is queued for the engine
PrintTimerExpires ==
    /\ PrintTimer = "running"
    /\ ~Halted
    /\ PrintTimer' = "expired"
    /\ UNCHANGED << LastCapturedTime, SmoothedTimeLapse, FirstSample,
                    ZeroDivision,
                    BeaconQueue, samples, Sample >>
    /\ UNCHANGED captureVars
    /\ UNCHANGED responderVars
    /\ UNCHANGED pollerVars
    /\ UNCHANGED logicVars
    /\ UNCHANGED restVars

RunBeaconDetectService_Timeout_NoRestart ==
    /\ PrintTimer = "expired"
    /\ ~Halted
    /\ \E outcome \in CalculateFrequency(SmoothedTimeLapse) :
        /\ ZeroDivision' = Build(outcome)
        /\ PrintTimer' = "stopped"
        /\ Sample' = << Step("ES_TIMEOUT", FALSE, Interval(Word(0, 0), FALSE),
                             << outcome >>, << >>) >>
    /\ UNCHANGED << LastCapturedTime, SmoothedTimeLapse, FirstSample,
                    BeaconQueue, samples >>
    /\ UNCHANGED captureVars
    /\ UNCHANGED responderVars
    /\ UNCHANGED pollerVars
    /\ UNCHANGED logicVars
    /\ UNCHANGED restVars

\* case ES_TIMEOUT with EventParam PRINT_FREQUENCY_TIMER
RunBeaconDetectService_Timeout ==
    /\ PrintTimer = "expired"
    /\ ~Halted
    /\ \E outcome \in CalculateFrequency(SmoothedTimeLapse) :
        /\ ZeroDivision' = Build(outcome)
        /\ PrintTimer' = IF outcome.trap THEN PrintTimer ELSE "running"
        /\ Sample' = << Step("ES_TIMEOUT", FALSE, Interval(Word(0, 0), FALSE),
                             << outcome >>, << >>) >>
    /\ UNCHANGED << LastCapturedTime, SmoothedTimeLapse, FirstSample,
                    BeaconQueue, samples >>
    /\ UNCHANGED captureVars
    /\ UNCHANGED responderVars
    /\ UNCHANGED pollerVars
    /\ UNCHANGED logicVars
    /\ UNCHANGED restVars

(***************************************************************************)
(* CaptureSpec: the timer, the input capture and the two interrupt          *)
(* routines, until the engine's queue holds MaxPending edge events          *)
(***************************************************************************)
CaptureNext ==
    \/ Tick
    \/ Capture
    \/ InputCaptureISR
    \/ Timer3ISR_Enter
    \/ Timer3ISR_Body

CaptureSpec == Init /\ [][CaptureNext]_vars

(***************************************************************************)
(* BeaconSpec: the engine fed with timestamps.  InputCaptureISR is taken    *)
(* at its end, RolloverCounter and the captured count having any of the     *)
(* values below: consecutive captures of a 1427 Hz beacon, captures hours   *)
(* apart, a counter that has wrapped, and the timestamp equal to            *)
(* INVALID_TIME.                                                            *)
(***************************************************************************)
\* captures fed to the engine
MaxSamples == 3

\* ticks between two captures of a 1427 Hz beacon, 16 periods apart:
\* 16 * 78125 / 1427 = 875.96, so 875 or 876
BeaconTicks == { (IC_PRESCALE * timerClock) \div TARGET_BEACON_FREQ,
                 (IC_PRESCALE * timerClock) \div TARGET_BEACON_FREQ + 1 }

Stamps ==
    { Word(0, 0), Word(0, 876), Word(0, 1751), Word(4096, 876),
      Word(8192, 876), Word(16384, 0), Word(HalfRange, 0),
      Word(Range16 - 1, Range16 - 2), Word(Range16 - 1, Range16 - 1) }

\* the end of InputCaptureISR: CapturedTime written, the edge event posted
EdgeCaptured_Step(counter, capturedTimer16) ==
    /\ samples < MaxSamples
    /\ BeaconQueue < MaxPending
    /\ ~Halted
    /\ RolloverCounter' = counter
    /\ IC1BUF' = capturedTimer16
    /\ CapturedTime' = Word(counter, capturedTimer16)
    /\ BeaconQueue' = BeaconQueue + 1
    /\ samples' = samples + 1
    /\ UNCHANGED << TMR3, T3IF, IC1IF, Timer3ISRAt, edgeReady, hwRollovers,
                    trueCapture, stamps >>
    /\ UNCHANGED << LastCapturedTime, SmoothedTimeLapse, FirstSample,
                    PrintTimer, ZeroDivision, Sample >>
    /\ UNCHANGED responderVars
    /\ UNCHANGED pollerVars
    /\ UNCHANGED logicVars

EdgeCaptured(counter, capturedTimer16) ==
    /\ EdgeCaptured_Step(counter, capturedTimer16)
    /\ UNCHANGED restVars

AnyEdgeCaptured == \E stamp \in Stamps : EdgeCaptured(stamp[1], stamp[2])

BeaconNext ==
    \/ AnyEdgeCaptured
    \/ RunBeaconDetectService_Edge
    \/ PrintTimerExpires
    \/ RunBeaconDetectService_Timeout
    \/ AnyRunMainLogicFSM

BeaconSpec == Init /\ [][BeaconNext]_vars

(***************************************************************************)
(* Beacon engine: properties of the capture routines                       *)
(***************************************************************************)
\* C21: every rollover of the 16-bit capture timer is counted exactly once,
\* whichever of InputCaptureISR and Timer3ISR gets to it and however they
\* interleave: at every moment the rollovers that have happened are those
\* RolloverCounter holds plus the one still flagged in T3IF, if any.
C21_RolloverCountedOnce ==
    (RolloverCounter + (IF T3IF THEN 1 ELSE 0)) % Range16
        = hwRollovers % Range16

\* InputCaptureISR came in between the entry of Timer3ISR and its test of
\* T3IF and counted the second rollover itself
C21_Witness ==
    /\ Timer3ISRAt = "entered"
    /\ ~T3IF
    /\ ~IC1IF
    /\ hwRollovers = 2
    /\ RolloverCounter = 2

\* C22: the wide timestamp has the captured count as its low half, and of
\* two captures in wall-clock order the later has the strictly larger
\* timestamp, the difference being the ticks that truly elapsed, also when
\* the timer rolled over between them.
C22_TimestampsFaithful ==
    /\ \A i \in 1..Len(stamps) : stamps[i][1][2] = stamps[i][2][2]
    /\ Len(stamps) = 2 =>
           /\ Lt32(stamps[1][1], stamps[2][1])
           /\ Sub32(stamps[2][1], stamps[1][1])
                  = Sub32(stamps[2][2], stamps[1][2])

\* a capture in the upper half of one period followed by a capture in the
\* lower half of the next
C22_Witness ==
    /\ Len(stamps) = 2
    /\ stamps[1][2][2] = Range16 - 1
    /\ stamps[2][2] = << stamps[1][2][1] + 1, 0 >>
    /\ stamps[2][1] = Word(stamps[1][1][1] + 1, 0)

(***************************************************************************)
(* Beacon engine: properties of RunBeaconDetectService                     *)
(***************************************************************************)
\* the latest step of the engine handled an edge event and measured an
\* interval
Measured ==
    /\ Sample # << >>
    /\ Sample[1].event = "ES_NEW_SIGNAL_EDGE"
    /\ Sample[1].measured

\* C23: with a valid previous timestamp, the interval computed on an edge
\* event is (current - previous) mod 2^32, also on the branch taken when
\* current < previous, and no sum computed on the way leaves 32 bits.
C23_IntervalIsModularDifference ==
    Measured =>
        /\ Sample[1].timeLapse.value
               = Sub32(Sample[1].current, Sample[1].last)
        /\ ~Sample[1].timeLapse.overflow

\* the wraparound branch was taken
C23_Witness ==
    /\ Measured
    /\ Lt32(Sample[1].current, Sample[1].last)
    /\ Sample[1].timeLapse.value = Word(Range16 - 4097, Range16 - 876)

\* floor((delta + 5 * previous) / 6) in exact arithmetic; the quotient is
\* below 2^32
ExactSmooth(delta, previous) ==
    LET low  == delta[2] + 5 * previous[2]
        high == delta[1] + 5 * previous[1] + (low \div Range16)
    IN  Word(high \div 6, ((high % 6) * Range16 + (low % Range16)) \div 6)

Min32(a, b) == IF Lt32(a, b) THEN a ELSE b
Max32(a, b) == IF Lt32(a, b) THEN b ELSE a

\* C24: the first measured interval seeds the smoothed interval; every
\* later sample sets it to floor((delta + 5 * previous_smoothed) / 6) in
\* exact integer arithmetic, which lies between the smaller and the larger
\* of delta and previous_smoothed.
C24_SmoothingExact ==
    Measured =>
        LET delta    == Sample[1].timeLapse.value
            previous == Sample[1].previous
        IN  IF Sample[1].first
            THEN SmoothedTimeLapse = delta
            ELSE /\ SmoothedTimeLapse = ExactSmooth(delta, previous)
                 /\ ~Lt32(SmoothedTimeLapse, Min32(delta, previous))
                 /\ ~Lt32(Max32(delta, previous), SmoothedTimeLapse)

\* C25: while the smoothed interval is 0 the computed frequency is 0 and
\* nothing is posted, 0 being outside the detection band; on the first edge
\* event, which has no previous timestamp, nothing is computed or posted.
C25_NoIntervalNoDetection ==
    /\ ~InBand(0)
    /\ Sample # << >> =>
           IF Sample[1].event = "ES_NEW_SIGNAL_EDGE" /\ ~Sample[1].measured
           THEN /\ Sample[1].outcome = << >>
                /\ Sample[1].posted = << >>
                /\ SmoothedTimeLapse = Sample[1].previous
           ELSE SmoothedTimeLapse = Word(0, 0) =>
                    /\ Sample[1].outcome = << Returns(0) >>
                    /\ Sample[1].posted = << >>

\* the first edge event has been handled, and then the report timer's
\* timeout, the smoothed interval still being 0
C25_Witness ==
    /\ Sample # << >>
    /\ Sample[1].event = "ES_TIMEOUT"
    /\ Sample[1].last = Word(0, 876)
    /\ Sample[1].first
    /\ Sample[1].previous = Word(0, 0)
    /\ Sample[1].outcome = << Returns(0) >>

\* C26: a smoothed interval of the ticks a 1427 Hz beacon produces between
\* two captures is classified as detected: the frequency computed from it
\* lies in [1427 - 50, 1427 + 50] and ES_BEACON_DETECTED is posted.
C26_TargetDetected ==
    (Measured /\ \E ticks \in BeaconTicks :
                     SmoothedTimeLapse = Word(0, ticks)) =>
        /\ Len(Sample[1].outcome) = 1
        /\ ~Sample[1].outcome[1].trap
        /\ InBand(Sample[1].outcome[1].value)
        /\ Len(Sample[1].posted) = 1
        /\ Sample[1].posted[1].EventType = "ES_BEACON_DETECTED"

\* the signal whose captures are interval ticks apart, 16 periods to a
\* capture, is 50 Hz or more away from 1427 Hz
FarFromTarget(interval) ==
    \/ interval[1] > 0
    \/ IC_PRESCALE * timerClock
           >= (TARGET_BEACON_FREQ + BEACON_FREQ_TOLERANCE) * interval[2]
    \/ IC_PRESCALE * timerClock
           <= (TARGET_BEACON_FREQ - BEACON_FREQ_TOLERANCE) * interval[2]

\* C27: no ES_BEACON_DETECTED is posted for a smoothed interval whose
\* signal frequency is 50 Hz or more away from 1427 Hz, whatever its size,
\* including the intervals whose 32-bit product with 16 wraps.
C27_NoFalseDetection ==
    (Measured /\ FarFromTarget(SmoothedTimeLapse)) =>
        Sample[1].posted = << >>

\* the engine's step that handles an edge event
EdgeStep == BeaconQueue' = BeaconQueue - 1

\* the sample an edge event produced is inside the detection band
Qualifies(sample) ==
    /\ sample.measured
    /\ ~sample.outcome[1].trap
    /\ InBand(sample.outcome[1].value)

\* C28: the engine posts exactly one ES_BEACON_DETECTED to the behaviour
\* machine for each edge sample whose frequency is inside the band, and
\* nothing for any other; a sample that qualifies right after one that did
\* posts again.
C28_OnePostPerQualifyingSample ==
    [][ EdgeStep =>
          MainQueue' =
              IF Qualifies(Sample'[1])
              THEN Append(MainQueue,
                          Event("ES_BEACON_DETECTED",
                                Sample'[1].outcome[1].value, "engine"))
              ELSE MainQueue ]_vars

\* two qualifying samples in a row, each with its own post
C28_Witness ==
    /\ Len(MainQueue) = 2
    /\ MainQueue[1].EventType = "ES_BEACON_DETECTED"
    /\ MainQueue[1].tag = "engine"
    /\ MainQueue[2].EventType = "ES_BEACON_DETECTED"
    /\ MainQueue[2].tag = "engine"
    /\ Measured
    /\ Qualifies(Sample[1])

\* the engine's step that handles the timeout of PRINT_FREQUENCY_TIMER
TimeoutStep ==
    /\ PrintTimer = "expired"
    /\ Sample' # << >>
    /\ Sample'[1].event = "ES_TIMEOUT"
    /\ Sample'[1].outcome # << >>
    /\ \/ PrintTimer' = "running"
       \/ ZeroDivision' # ZeroDivision
       \/ Sample' # Sample

\* C29: handling the timeout of PRINT_FREQUENCY_TIMER leaves
\* SmoothedTimeLapse, LastCapturedTime, FirstSample, CapturedTime and
\* RolloverCounter as they were, posts nothing to the behaviour machine and
\* starts the same timer again, so that the next report follows.
C29_ReportOnly ==
    [][ TimeoutStep =>
          /\ UNCHANGED << SmoothedTimeLapse, LastCapturedTime, FirstSample,
                          CapturedTime, RolloverCounter >>
          /\ MainQueue' = MainQueue
          /\ PrintTimer' = "running" ]_vars

\* a report made after an interval has been measured, the timer running
\* again
C29_Witness ==
    /\ Sample # << >>
    /\ Sample[1].event = "ES_TIMEOUT"
    /\ Sample[1].previous = Word(0, 876)
    /\ SmoothedTimeLapse = Word(0, 876)
    /\ PrintTimer = "running"

(***************************************************************************)
(* Event checkers: Check4BeaconDetected and Check4TapeDetected reading the  *)
(* pins RB2 and RB3                                                         *)
(***************************************************************************)
\* ReadBeaconInputPin()
ReadBeaconInputPin == RB2

\* ReadTapeSensorPin()
ReadTapeSensorPin == RB3

\* history: a call of an event checker, the level it read, the level it
\* remembered and whether it posted; turn tells a call from the one before
Call(checker, level, last, posted) ==
    [ checker |-> checker, level |-> level, last |-> last,
      posted |-> posted,
      turn |-> IF Checked = << >> THEN 0 ELSE 1 - Checked[1].turn ]

Check4BeaconDetected_WhileHigh(room) ==
    LET CurrentBeaconState == ReadBeaconInputPin
        detected == CurrentBeaconState = TRUE
    IN  /\ room
        /\ PostMainLogicFSM(IF detected
                            THEN << Event("ES_BEACON_DETECTED", 0,
                                          "checker") >>
                            ELSE << >>)
        /\ LastBeaconState' = CurrentBeaconState
        /\ Checked' = << Call("beacon", CurrentBeaconState, LastBeaconState,
                              detected) >>
        /\ UNCHANGED << RB2, RB3, LastTapeState >>
        /\ UNCHANGED responderVars
        /\ UNCHANGED pollerVars
        /\ UNCHANGED engineVars
        /\ UNCHANGED << Polled, orderVars, pendingVars, raceVars >>

\* Check4BeaconDetected
Check4BeaconDetected(room) ==
    LET CurrentBeaconState == ReadBeaconInputPin
        detected == CurrentBeaconState = TRUE /\ LastBeaconState = FALSE
    IN  /\ room
        /\ PostMainLogicFSM(IF detected
                            THEN << Event("ES_BEACON_DETECTED", 0,
                                          "checker") >>
                            ELSE << >>)
        /\ LastBeaconState' = CurrentBeaconState
        /\ Checked' = << Call("beacon", CurrentBeaconState, LastBeaconState,
                              detected) >>
        /\ UNCHANGED << RB2, RB3, LastTapeState >>
        /\ UNCHANGED responderVars
        /\ UNCHANGED pollerVars
        /\ UNCHANGED engineVars
        /\ UNCHANGED << Polled, orderVars, pendingVars, raceVars >>

Check4TapeDetected_RisingEdge(room) ==
    LET CurrentTapeState == ReadTapeSensorPin
        detected == CurrentTapeState = TRUE /\ LastTapeState = FALSE
    IN  /\ room
        /\ PostMainLogicFSM(IF detected
                            THEN << Event("ES_TAPE_DETECTED", 0, "checker") >>
                            ELSE << >>)
        /\ LastTapeState' = CurrentTapeState
        /\ Checked' = << Call("tape", CurrentTapeState, LastTapeState,
                              detected) >>
        /\ UNCHANGED << RB2, RB3, LastBeaconState >>
        /\ UNCHANGED responderVars
        /\ UNCHANGED pollerVars
        /\ UNCHANGED engineVars
        /\ UNCHANGED << Polled, orderVars, pendingVars, raceVars >>

\* Check4TapeDetected
Check4TapeDetected(room) ==
    LET CurrentTapeState == ReadTapeSensorPin
        detected == CurrentTapeState = FALSE /\ LastTapeState = TRUE
    IN  /\ room
        /\ PostMainLogicFSM(IF detected
                            THEN << Event("ES_TAPE_DETECTED", 0, "checker") >>
                            ELSE << >>)
        /\ LastTapeState' = CurrentTapeState
        /\ Checked' = << Call("tape", CurrentTapeState, LastTapeState,
                              detected) >>
        /\ UNCHANGED << RB2, RB3, LastBeaconState >>
        /\ UNCHANGED responderVars
        /\ UNCHANGED pollerVars
        /\ UNCHANGED engineVars
        /\ UNCHANGED << Polled, orderVars, pendingVars, raceVars >>

\* the beacon comes into view or leaves it
BeaconPinChanges ==
    /\ RB2' = ~RB2
    /\ UNCHANGED << RB3, LastBeaconState, LastTapeState, Checked >>
    /\ UNCHANGED responderVars
    /\ UNCHANGED pollerVars
    /\ UNCHANGED logicVars
    /\ UNCHANGED engineVars
    /\ UNCHANGED << Polled, orderVars, pendingVars, raceVars >>

\* the tape sensor comes over the tape or leaves it
TapePinChanges ==
    /\ RB3' = ~RB3
    /\ UNCHANGED << RB2, LastBeaconState, LastTapeState, Checked >>
    /\ UNCHANGED responderVars
    /\ UNCHANGED pollerVars
    /\ UNCHANGED logicVars
    /\ UNCHANGED engineVars
    /\ UNCHANGED << Polled, orderVars, pendingVars, raceVars >>

(***************************************************************************)
(* SensorSpec: the behaviour machine with the event checkers and the pins;  *)
(* the dispatch of a command reads the pins as they are                     *)
(***************************************************************************)
SensorCommands == { CMD_ALIGN_BEACON, CMD_SEARCH_TAPE }

SensorCommand ==
    \E command \in SensorCommands : CommandRetrieved(command, Room)

SensorRun == RunMainLogicFSM(ReadBeaconInputPin, ReadTapeSensorPin)

SensorNext ==
    \/ BeaconPinChanges
    \/ TapePinChanges
    \/ Check4BeaconDetected(Room)
    \/ Check4TapeDetected(Room)
    \/ SensorCommand
    \/ LogicTimer
    \/ SensorRun

SensorSpec == Init /\ [][SensorNext]_vars

(***************************************************************************)
(* Properties of the event checkers                                         *)
(***************************************************************************)
\* the step is a call of this event checker
CheckerStep(checker) ==
    /\ Checked' # << >>
    /\ Checked' # Checked
    /\ Checked'[1].checker = checker

\* C31: Check4BeaconDetected posts ES_BEACON_DETECTED exactly when the
\* beacon input is high on this call and was low on the previous one, that
\* is once per low-to-high transition and neither while the level stays
\* high nor on a high-to-low transition; afterwards its remembered level is
\* the level just read.
C31_BeaconRisingEdge ==
    [][ CheckerStep("beacon") =>
          /\ MainQueue' =
                 IF RB2 /\ ~LastBeaconState
                 THEN Append(MainQueue,
                             Event("ES_BEACON_DETECTED", 0, "checker"))
                 ELSE MainQueue
          /\ LastBeaconState' = RB2 ]_vars

\* a call with the input still high after the call that posted: nothing
\* is posted again
C31_Witness ==
    /\ Checked # << >>
    /\ Checked[1].checker = "beacon"
    /\ Checked[1].level
    /\ Checked[1].last
    /\ ~Checked[1].posted
    /\ LastBeaconState
    /\ \E i \in 1..Len(MainQueue) :
           /\ MainQueue[i].EventType = "ES_BEACON_DETECTED"
           /\ MainQueue[i].tag = "checker"

\* C32: Check4TapeDetected, whose remembered level starts high, posts
\* ES_TAPE_DETECTED exactly when the tape input is low on this call and was
\* high on the previous one, that is once per high-to-low transition and
\* neither while the level stays low nor on a low-to-high transition.
C32_TapeFallingEdge ==
    [][ CheckerStep("tape") =>
          /\ MainQueue' =
                 IF ~RB3 /\ LastTapeState
                 THEN Append(MainQueue,
                             Event("ES_TAPE_DETECTED", 0, "checker"))
                 ELSE MainQueue
          /\ LastTapeState' = RB3 ]_vars

\* a call with the input still low after the call that posted: nothing is
\* posted again
C32_Witness ==
    /\ Checked # << >>
    /\ Checked[1].checker = "tape"
    /\ ~Checked[1].level
    /\ ~Checked[1].last
    /\ ~Checked[1].posted
    /\ ~LastTapeState
    /\ \E i \in 1..Len(MainQueue) :
           /\ MainQueue[i].EventType = "ES_TAPE_DETECTED"
           /\ MainQueue[i].tag = "checker"

\* C35: the shortcut of search-for-tape and Check4TapeDetected agree on the
\* level that means tape.  Check4TapeDetected reports the onset of the low
\* level; so search-for-tape dispatched with the input low starts no drive
\* and leads back to Stopped, and dispatched with the input high (no tape)
\* it starts the forward drive.
C35_TapeLevelsAgree ==
    /\ ( HandledCommand("Stopped", CMD_SEARCH_TAPE) /\ PinWas(FALSE) ) =>
         /\ MotorRequest = << >>
         /\ Len(SelfPosted) = 1
         /\ SelfPosted[1].EventType = "ES_TAPE_DETECTED"
    /\ ( HandledCommand("Stopped", CMD_SEARCH_TAPE) /\ PinWas(TRUE) ) =>
         /\ MotorRequest = << MotorCommandWrapper(FULL_SPEED, FULL_SPEED,
                                                  FORWARD, FORWARD) >>
         /\ SelfPosted = << >>
         /\ MainLogicState = "SearchingForTape"

(***************************************************************************)
(* Properties of the Poller's timer                                         *)
(***************************************************************************)
\* the Poller handles the timeout of another timer than COMMAND_SPI_TIMER
ForeignStep ==
    /\ Polled' # << >>
    /\ Polled'[1].timer # "COMMAND_SPI_TIMER"
    /\ Polled' # Polled

\* C33: every timeout of COMMAND_SPI_TIMER the Poller handles issues one
\* query and starts COMMAND_SPI_TIMER again with the 500 ms period, whatever
\* byte the query returned, so that polls recur for ever; the timeout of
\* another timer issues no query and leaves the latch and the timer alone.
C33_PollingNeverStops ==
    /\ [][ /\ PollStep =>
                 /\ Polled' = << Timeout("COMMAND_SPI_TIMER", 1, << 500 >>) >>
                 /\ Len(prevReply') = 1
           /\ SpiTimer = "expired" => SpiTimer' \in { "expired", "running" }
           /\ ForeignStep =>
                 /\ Polled'[1].queries = 0
                 /\ Polled'[1].armed = << >>
                 /\ UNCHANGED << SawNewCommandFlag, LastCommand, SpiTimer,
                                 prevReply, Posted >> ]_vars
    /\ []<>(SpiTimer = "expired")
    /\ []<>(SpiTimer = "running")

\* a poll whose reply was an invalid payload after the flag has restarted
\* the timer
C33_Witness ==
    /\ protocolError
    /\ SpiTimer = "running"
    /\ prevReply # << >>
    /\ prevReply[1] \notin ValidSet
    /\ prevReply[1] # NewCommandFlagByte
    /\ Polled = << Timeout("COMMAND_SPI_TIMER", 1, << 500 >>) >>

(***************************************************************************)
(* Further properties of the behaviour machine                              *)
(***************************************************************************)
\* C36: whenever the behaviour state is Stopped and no command event waits
\* in the machine's queue, the most recent actuation request is the zero
\* actuation (0, 0, FORWARD, FORWARD): the motors never run while the
\* machine is Stopped and idle.
C36_StoppedMeansMotorsOff ==
    (MainLogicState = "Stopped" /\ ~CommandWaiting) =>
        /\ DesiredSpeed = ZeroActuation.DesiredSpeed
        /\ DesiredDirection = ZeroActuation.DesiredDirection

\* a stop command that ended a drive has been re-posted and dispatched from
\* Stopped, and nothing waits
C36_Witness ==
    /\ HandledCommand("Stopped", CMD_STOP)
    /\ Handled[1].Event.tag = "reposted"
    /\ MainLogicState = "Stopped"
    /\ MainQueue = << >>
    /\ DesiredSpeed = << 0, 0 >>

(***************************************************************************)
(* OrderSpec: the order in which commands are forwarded, and the order in  *)
(* which the machine acts on them.                                         *)
(***************************************************************************)
\* bound: commands the Poller forwards in one run
MaxDelivered == 3

\* two commands, neither dispatched yet, are the last two events of the
\* queue of a machine that is not Stopped
TwoWaiting(state, queue) ==
    /\ state # "Stopped"
    /\ Len(queue) >= 2
    /\ \A i \in { Len(queue) - 1, Len(queue) } :
           /\ queue[i].EventType = "ES_COMMAND_RETRIEVED"
           /\ queue[i].tag = "new"

Waited(state, queue, forwarded) ==
    IF TwoWaiting(state, queue) THEN Len(forwarded) ELSE waited

\* the Poller forwards a command: ES_COMMAND_RETRIEVED
OrderCommand ==
    \E command \in LogicCommands :
        /\ Len(delivered) < MaxDelivered
        /\ PostMainLogicFSM_Step(Event("ES_COMMAND_RETRIEVED", command, "new"),
                                 Room)
        /\ delivered' = Append(delivered, command)
        /\ waited' = Waited(MainLogicState, Append(MainQueue,
                               Event("ES_COMMAND_RETRIEVED", command, "new")),
                            Append(delivered, command))
        /\ UNCHANGED << TimerActive, armedHere >>
        /\ UNCHANGED << sensorVars, Polled, pendingVars, raceVars >>

\* the framework calls RunMainLogicFSM with the event at the head
OrderRun ==
    \E beacon, tape \in BOOLEAN :
        /\ RunMainLogicFSM_Step(beacon, tape)
        /\ waited' = Waited(MainLogicState', MainQueue', delivered)
        /\ UNCHANGED delivered
        /\ UNCHANGED << sensorVars, Polled, pendingVars, raceVars >>

OrderNext ==
    \/ OrderCommand
    \/ LogicTimer
    \/ OrderRun

OrderSpec == Init /\ [][OrderNext]_vars

\* C34: command order is preserved through preemption: when two commands A
\* then B waited in the queue of a machine that was not Stopped and B is
\* still the most recently forwarded command, then once the queue has
\* drained the command whose action is in effect (the one dispatched last
\* from Stopped) is B, not A.
C34_OrderPreserved ==
    ( /\ waited > 0
      /\ waited = Len(delivered)
      /\ MainQueue = << >>
      /\ HandledEvent("Stopped", "ES_COMMAND_RETRIEVED") ) =>
        Handled[1].Event.EventParam = delivered[Len(delivered)]

(***************************************************************************)
(* Further properties of the beacon engine                                  *)
(***************************************************************************)
\* the latest step of the engine called CalculateFrequency
Calculated == Sample # << >> /\ Sample[1].outcome # << >>

\* C38: CalculateFrequency never divides by zero: for every 32-bit interval,
\* the non-zero multiples of 2^28 included, whose product with 16 wraps to
\* 0, the call returns a defined result, and the result is 0 exactly when
\* the interval is 0.
C38_NeverDividesByZero ==
    Calculated =>
        /\ ~Sample[1].outcome[1].zero
        /\ ~Sample[1].outcome[1].trap
        /\ Sample[1].outcome[1].value = 0 <=> SmoothedTimeLapse = Word(0, 0)

(***************************************************************************)
(* PendingSpec: edge events that wait in the engine's queue while further  *)
(* captures are served.                                                    *)
(***************************************************************************)
\* the end of InputCaptureISR: CapturedTime written, the edge event posted
PendingCapture ==
    \E stamp \in Stamps :
        /\ EdgeCaptured_Step(stamp[1], stamp[2])
        /\ posters' = Append(posters, stamp)
        /\ UNCHANGED served
        /\ UNCHANGED << sensorVars, Polled, orderVars, raceVars >>

\* the framework calls RunBeaconDetectService with the edge event at the head
PendingEdge ==
    /\ RunBeaconDetectService_EdgeStep
    /\ posters' = Tail(posters)
    /\ served' = << Head(posters) >>
    /\ UNCHANGED << sensorVars, Polled, orderVars, raceVars >>

PendingNext ==
    \/ PendingCapture
    \/ PendingEdge
    \/ AnyRunMainLogicFSM

PendingSpec == Init /\ [][PendingNext]_vars

\* C37: each ES_NEW_SIGNAL_EDGE event is processed with the timestamp of
\* the capture that posted it, and with a valid previous timestamp the
\* interval it yields is the one between that capture and the capture of
\* the edge event handled before: two captures served before the engine
\* runs still yield the two true intervals, not a merged one and then 0.
C37_EventCarriesItsCapture ==
    [][ EdgeStep =>
          /\ Sample'[1].current = Head(posters)
          /\ served # << >> =>
                /\ Sample'[1].measured
                /\ Sample'[1].timeLapse
                     = TimeLapse(Head(posters), served[1]) ]_vars

(***************************************************************************)
(* Further properties of the Responder                                      *)
(***************************************************************************)
\* the step handles a key that falls into the default branch of the switch
OtherKeyStep == \E key \in OtherKeys : RunSPIFollowerFSM_NewKey(key)

\* C40: a keystroke that maps to no command has no effect on the link,
\* whatever command is held: CurrentCommand, NewCommandFlag and CurrentState
\* stay as they are, so no flag and no new payload is sent because of it.
C40_UnknownKeyIgnored ==
    [][ OtherKeyStep =>
          UNCHANGED << CurrentCommand, NewCommandFlag, CurrentState >> ]_vars

(***************************************************************************)
(* RaceSpec: RunSPIFollowerFSM store by store.  SPI_ISR has priority 7 and *)
(* interrupts the key handler wherever an exchange ends.                   *)
(***************************************************************************)
RaceKeys == { "s", "w", "d", "k" }

\* ES_NEW_KEY up to the first store: CurrentCommand = newCommand;
RunSPIFollowerFSM_StoreCommand(key) ==
    /\ KeyAt = "idle"
    /\ IF /\ CurrentState = "WaitingForCommand"
          /\ NewCommandReady(KeyToCommand(key), CurrentCommand, key)
       THEN /\ CurrentCommand' = KeyToCommand(key)
            /\ KeyAt' = "CurrentCommand"
            /\ owed' = Append(owed, KeyToCommand(key))
            /\ issued' = << KeyToCommand(key) >>
       ELSE /\ UNCHANGED << CurrentCommand, KeyAt, owed >>
            /\ issued' = IF /\ key \in CommandKeys
                            /\ CurrentState # "InitSPIFollowerState"
                         THEN << KeyToCommand(key) >>
                         ELSE issued
    /\ UNCHANGED << NewCommandFlag, CurrentState, SPI1BUF, wire, sent >>
    /\ UNCHANGED pollerVars
    /\ UNCHANGED logicVars
    /\ UNCHANGED engineVars
    /\ UNCHANGED << sensorVars, Polled, orderVars, pendingVars >>

\* NewCommandFlag = true;
RunSPIFollowerFSM_StoreFlag ==
    /\ KeyAt = "CurrentCommand"
    /\ NewCommandFlag' = TRUE
    /\ KeyAt' = "NewCommandFlag"
    /\ UNCHANGED << CurrentCommand, CurrentState, SPI1BUF, wire, owed, issued,
                    sent >>
    /\ UNCHANGED pollerVars
    /\ UNCHANGED logicVars
    /\ UNCHANGED engineVars
    /\ UNCHANGED << sensorVars, Polled, orderVars, pendingVars >>

\* CurrentState = SendingNewFlag;
RunSPIFollowerFSM_StoreState ==
    /\ KeyAt = "NewCommandFlag"
    /\ CurrentState' = "SendingNewFlag"
    /\ KeyAt' = "idle"
    /\ UNCHANGED << CurrentCommand, NewCommandFlag, SPI1BUF, wire, owed,
                    issued, sent >>
    /\ UNCHANGED pollerVars
    /\ UNCHANGED logicVars
    /\ UNCHANGED engineVars
    /\ UNCHANGED << sensorVars, Polled, orderVars, pendingVars >>

\* an exchange: the byte loaded before goes out, SPI_ISR loads the next
RaceExchange ==
    /\ LinkPoll_Step
    /\ sent' = Loaded(SPI1BUF', << sent.byte >>,
                      IF sent.byte # NewCommandFlagByte THEN << sent.byte >>
                      ELSE sent.command)
    /\ UNCHANGED KeyAt

RaceNext ==
    \/ RunSPIFollowerFSM_Init
    \/ \E key \in RaceKeys : RunSPIFollowerFSM_StoreCommand(key)
    \/ RunSPIFollowerFSM_StoreFlag
    \/ RunSPIFollowerFSM_StoreState
    \/ CommandSpiTimerExpires
    \/ RaceExchange

RaceSpec == Init /\ [][RaceNext]_vars

\* C39: the flag precedes every new value under every interleaving of
\* SPI_ISR with key handling: in the bytes the Responder sends, a command
\* byte that differs from the command byte sent before it comes right after
\* 0xFF, also when SPI_ISR runs between the store to CurrentCommand and the
\* store to CurrentState.
C39_FlagPrecedesNewValue ==
    ( /\ sent.byte # NewCommandFlagByte
      /\ sent.command # << >>
      /\ sent.byte # sent.command[1] ) =>
        sent.before = << NewCommandFlagByte >>

====
